---- MODULE Spec2Model ----
(***************************************************************************)
(* Model of pipeline_creator:                                              *)
(*   templates/template_schema.py       TemplateParameter, TemplateSchema  *)
(*   templates/template_manager.py      Template, TemplateManager          *)
(*   templates/template_inheritance.py  TemplateInheritance                *)
(*   templates/template_service.py      TemplateService                    *)
(*   notifications/notification_service.py  NotificationService            *)
(*   notifications/event_handlers.py    EventHandler                       *)
(*   commands/init.py                   init_command                       *)
(*                                                                         *)
(* Python values are tagged records [t |-> <type name>, v |-> <payload>],  *)
(* so that isinstance() is a test on the tag.  A dict payload is a         *)
(* function from its keys, a list payload is a sequence.                   *)
(*                                                                         *)
(* Seven specifications share the variables:                               *)
(*   Spec        the template store and the inheritance composer working   *)
(*               on it (create, delete, import, chain, validate, resolve); *)
(*   SpecPure    the pure functions (deep merge, schema merge, validation, *)
(*               serialization, parameter substitution), each applied to   *)
(*               inputs drawn by PureInit;                                 *)
(*   SpecApply   a store of templates with placeholders and the project    *)
(*               document that apply_template writes;                      *)
(*   SpecStore   the template directories file by file: two-step writes,   *)
(*               malformed directories, listing and lookup;                *)
(*   SpecNotify  a notification service sending a few events to channels   *)
(*               that succeed, fail or raise;                              *)
(*   SpecHistory a notification service recording events past the limit    *)
(*               of its history;                                           *)
(*   SpecInit    one run of the init command in a working directory.       *)
(***************************************************************************)
EXTENDS Integers, Sequences, FiniteSets, TLC

VARIABLES
    predefined,   \* predefined tier: directory name -> directory (file name -> document)
    user,         \* user tier:       directory name -> directory (file name -> document)
    op,           \* Spec: the last operation called, with its argument
    ret,          \* Spec: what that operation returned
    call,         \* SpecPure: the pure function called, with its arguments
    out,          \* SpecPure: its result, Pending before it has run
    pipeline_json,\* SpecApply: the project's pipeline.json, Nothing while absent
    service,      \* SpecNotify, SpecHistory: the NotificationService object
    cwd           \* SpecInit: the working directory, file name -> content

vars == <<predefined, user, op, ret, call, out, pipeline_json, service, cwd>>

(***************************************************************************)
(* Bounds of the model.                                                    *)
(***************************************************************************)
MaxInt == 2            \* integer leaves, min_value and max_value range over 0..MaxInt
MaxParams == 2         \* generated parameter lists hold at most this many ParameterSpecs
RecursionLimit == 4    \* depth at which the interpreter raises RecursionError

(***************************************************************************)
(* Python values.                                                          *)
(***************************************************************************)
PyNone == [t |-> "NoneType", v |-> "None"]
PyBool(b) == [t |-> "bool", v |-> b]
PyInt(i) == [t |-> "int", v |-> i]
PyFloat(i) == [t |-> "float", v |-> i]       \* the float i.0
PyStr(s) == [t |-> "str", v |-> s]
PyList(s) == [t |-> "list", v |-> s]
PyDict(f) == [t |-> "dict", v |-> f]

\* isinstance(value, classes): bool is a subclass of int.
IsInstance(value, classes) ==
    \/ value.t \in classes
    \/ value.t = "bool" /\ "int" \in classes

\* Truth value of an Optional[str] / Optional[list] ('if x', 'not x', 'x or []').
Truthy(value) ==
    CASE value.t = "NoneType" -> FALSE
      [] value.t = "str" -> value.v # ""
      [] value.t = "list" -> Len(value.v) > 0
      [] value.t = "dict" -> DOMAIN value.v # {}
      [] value.t = "bool" -> value.v
      [] OTHER -> value.v # 0

\* The number a bool, int or float compares as.
NumVal(value) == IF value.t = "bool" THEN (IF value.v THEN 1 ELSE 0) ELSE value.v

IsNumber(value) == value.t \in {"bool", "int", "float"}

\* a == b: numbers compare by value across bool/int/float, anything else by
\* type and content.
PyEq(a, b) ==
    IF IsNumber(a) /\ IsNumber(b) THEN NumVal(a) = NumVal(b) ELSE a = b

\* value in xs (list membership).
PyIn(value, xs) == \E i \in 1..Len(xs) : PyEq(xs[i], value)

Range(s) == {s[i] : i \in 1..Len(s)}

SeqsUpTo(S, n) == UNION {[1..k -> S] : k \in 0..n}

\* The dict f after f[key] = value.
Put(f, key, value) ==
    [k \in (DOMAIN f) \cup {key} |-> IF k = key THEN value ELSE f[k]]

\* Optional results: <<>> is None, <<x>> is x.
Nothing == <<>>
Some(x) == <<x>>
IsNothing(r) == Len(r) = 0
The(r) == r[1]

(***************************************************************************)
(* TemplateInheritance._merge_configs: the nested deep_merge.              *)
(***************************************************************************)
RECURSIVE deep_merge_replacing_lists(_, _)
deep_merge_replacing_lists(base, override) ==
    [key \in (DOMAIN base) \cup (DOMAIN override) |->
        IF key \notin DOMAIN override THEN base[key]
        ELSE IF key \in DOMAIN base /\ base[key].t = "dict" /\ override[key].t = "dict"
             THEN PyDict(deep_merge_replacing_lists(base[key].v, override[key].v))
             ELSE override[key]]

RECURSIVE deep_merge(_, _), deep_merge_items(_, _, _)
\* The loop 'for key, value in override.items()' over the keys still to visit.
deep_merge_items(result, override, keys) ==
    IF keys = {} THEN result
    ELSE LET key == CHOOSE k \in keys : TRUE
             value == override[key]
             updated ==
                 IF key \in DOMAIN result /\ IsInstance(result[key], {"dict"})
                                          /\ IsInstance(value, {"dict"})
                 THEN Put(result, key, PyDict(deep_merge(result[key].v, value.v)))
                 ELSE IF key \in DOMAIN result /\ IsInstance(result[key], {"list"})
                                               /\ IsInstance(value, {"list"})
                      THEN Put(result, key, PyList(result[key].v \o value.v))
                      ELSE Put(result, key, value)
         IN  deep_merge_items(updated, override, keys \ {key})

deep_merge(base, override) == deep_merge_items(base, override, DOMAIN override)

merge_configs(base_config, child_config) == deep_merge(base_config, child_config)

(***************************************************************************)
(* template_schema.py: ParameterType, TemplateCategory, TemplateParameter. *)
(* An Enum member is the record of its class and its value; ParameterType  *)
(* and TemplateCategory are the sets of the values of the two classes.     *)
(* An error message is the tuple of its format string's kind and the       *)
(* values interpolated into it.                                            *)
(***************************************************************************)
ParameterType == {"string", "integer", "boolean", "array", "object", "select"}

TemplateCategory ==
    {"web-frontend", "web-backend", "api", "microservice", "mobile", "desktop",
     "data-processing", "ml-ai", "devops", "custom"}

Member(enum, value) == [enum |-> enum, value |-> value]

\* ParameterType(value), TemplateCategory(value): the member with that value
\* (FromDictRaises holds where the call raises ValueError instead).
ParameterTypeOf(value) == Member("ParameterType", value)
TemplateCategoryOf(value) == Member("TemplateCategory", value)

ParameterType_STRING == ParameterTypeOf("string")
ParameterType_INTEGER == ParameterTypeOf("integer")
ParameterType_BOOLEAN == ParameterTypeOf("boolean")
ParameterType_ARRAY == ParameterTypeOf("array")
ParameterType_OBJECT == ParameterTypeOf("object")
ParameterType_SELECT == ParameterTypeOf("select")

TemplateParameter(name, type, description, default, required, options, min_value, max_value, pattern) ==
    [name |-> name, type |-> type, description |-> description, default |-> default,
     required |-> required, options |-> options, min_value |-> min_value,
     max_value |-> max_value, pattern |-> pattern]

Valid == [ok |-> TRUE, error |-> <<"", "", PyNone>>]
Invalid(kind, name, detail) == [ok |-> FALSE, error |-> <<kind, name, detail>>]

\* x or []
OrEmptyList(x) == IF Truthy(x) THEN x.v ELSE <<>>

\* TemplateParameter.validate
validate(self, value) ==
    IF value.t = "NoneType"
    THEN IF self.required THEN Invalid("is required", self.name, PyNone) ELSE Valid
    ELSE IF self.type = ParameterType_STRING /\ ~IsInstance(value, {"str"})
    THEN Invalid("must be a string", self.name, PyNone)
    ELSE IF self.type = ParameterType_INTEGER /\ ~IsInstance(value, {"int"})
    THEN Invalid("must be an integer", self.name, PyNone)
    ELSE IF self.type = ParameterType_BOOLEAN /\ ~IsInstance(value, {"bool"})
    THEN Invalid("must be a boolean", self.name, PyNone)
    ELSE IF self.type = ParameterType_ARRAY /\ ~IsInstance(value, {"list"})
    THEN Invalid("must be an array", self.name, PyNone)
    ELSE IF self.type = ParameterType_OBJECT /\ ~IsInstance(value, {"dict"})
    THEN Invalid("must be an object", self.name, PyNone)
    ELSE IF self.type = ParameterType_SELECT /\ ~PyIn(value, OrEmptyList(self.options))
    THEN Invalid("must be one of", self.name, PyList(OrEmptyList(self.options)))
    ELSE IF self.type \in {ParameterType_INTEGER} /\ IsInstance(value, {"int", "float"})
    THEN IF self.min_value.t # "NoneType" /\ NumVal(value) < NumVal(self.min_value)
         THEN Invalid("must be >=", self.name, self.min_value)
         ELSE IF self.max_value.t # "NoneType" /\ NumVal(value) > NumVal(self.max_value)
         THEN Invalid("must be <=", self.name, self.max_value)
         ELSE Valid
    ELSE Valid

(***************************************************************************)
(* template_schema.py: TemplateSchema.  Fields typed str or List[str] hold *)
(* the bare string or sequence; Optional fields hold a tagged value.       *)
(***************************************************************************)
TemplateSchema(name, version, description, category, author, tags, parameters, extends, requirements) ==
    [name |-> name, version |-> version, description |-> description,
     category |-> category, author |-> author, tags |-> tags,
     parameters |-> parameters, extends |-> extends, requirements |-> requirements]

\* data.get(key, default)
Get(data, key, default) == IF key \in DOMAIN data THEN data[key] ELSE default

\* The parameter comprehension of from_dict, for one parameter document.
ParameterFromDict(p) ==
    TemplateParameter(p.name, ParameterTypeOf(p.type), p.description,
                      Get(p, "default", PyNone),
                      Get(p, "required", TRUE), Get(p, "options", PyNone),
                      Get(p, "min_value", PyNone), Get(p, "max_value", PyNone),
                      Get(p, "pattern", PyNone))

\* from_dict raises (KeyError on a missing required key, ValueError on an
\* unknown enumeration value).
FromDictRaises(data) ==
    \/ ~({"name", "version", "description", "category", "author"} \subseteq DOMAIN data)
    \/ data.category \notin TemplateCategory
    \/ \E i \in 1..Len(Get(data, "parameters", <<>>)) :
           LET p == data.parameters[i]
           IN  \/ ~({"name", "type", "description"} \subseteq DOMAIN p)
               \/ p.type \notin ParameterType

\* TemplateSchema.from_dict, where it does not raise.
from_dict(data) ==
    LET docs == Get(data, "parameters", <<>>)
    IN  TemplateSchema(data.name, data.version, data.description,
                       TemplateCategoryOf(data.category), data.author, Get(data, "tags", <<>>),
                       [i \in 1..Len(docs) |-> ParameterFromDict(docs[i])],
                       Get(data, "extends", PyNone), Get(data, "requirements", PyNone))

\* A to_dict that leaves 'required' out of each parameter document, so that
\* from_dict falls back on its default of True.
to_dict_omitting_required(self) ==
    [name |-> self.name, version |-> self.version, description |-> self.description,
     category |-> self.category.value, author |-> self.author, tags |-> self.tags,
     extends |-> self.extends, requirements |-> self.requirements,
     parameters |->
        [i \in 1..Len(self.parameters) |->
            LET p == self.parameters[i]
            IN  [name |-> p.name, type |-> p.type.value, description |-> p.description,
                 default |-> p.default, options |-> p.options,
                 min_value |-> p.min_value, max_value |-> p.max_value,
                 pattern |-> p.pattern]]]

\* TemplateSchema.to_dict
to_dict(self) ==
    [name |-> self.name, version |-> self.version, description |-> self.description,
     category |-> self.category.value, author |-> self.author, tags |-> self.tags,
     extends |-> self.extends, requirements |-> self.requirements,
     parameters |->
        [i \in 1..Len(self.parameters) |->
            LET p == self.parameters[i]
            IN  [name |-> p.name, type |-> p.type.value, description |-> p.description,
                 default |-> p.default, required |-> p.required, options |-> p.options,
                 min_value |-> p.min_value, max_value |-> p.max_value,
                 pattern |-> p.pattern]]]

\* The loop of validate_parameters: the errors of the parameters that fail,
\* each validated against values.get(param.name).
RECURSIVE validation_errors(_, _)
validation_errors(parameters, values) ==
    IF parameters = <<>> THEN <<>>
    ELSE LET param == Head(parameters)
             result == validate(param, Get(values, param.name, PyNone))
         IN  (IF ~result.ok THEN <<result.error>> ELSE <<>>)
             \o validation_errors(Tail(parameters), values)

\* A validation that returns at the first parameter that fails.
validate_parameters_first_error(self, values) ==
    LET errors == validation_errors(self.parameters, values)
    IN  [ok |-> Len(errors) = 0,
         errors |-> IF Len(errors) = 0 THEN <<>> ELSE <<Head(errors)>>]

\* TemplateSchema.validate_parameters
validate_parameters(self, values) ==
    LET errors == validation_errors(self.parameters, values)
    IN  [ok |-> Len(errors) = 0, errors |-> errors]

(***************************************************************************)
(* A dict whose iteration order matters is the sequence of its items       *)
(* <<key, value>> in insertion order, the keys distinct.                   *)
(***************************************************************************)
\* d[key] = value: an existing key keeps its place.
SetItem(d, key, value) ==
    IF \E i \in 1..Len(d) : d[i][1] = key
    THEN [i \in 1..Len(d) |-> IF d[i][1] = key THEN <<key, value>> ELSE d[i]]
    ELSE Append(d, <<key, value>>)

\* d.update(other)
RECURSIVE Update(_, _)
Update(d, other) ==
    IF other = <<>> THEN d
    ELSE Update(SetItem(d, Head(other)[1], Head(other)[2]), Tail(other))

\* d.get(key), on the items.
Lookup(d) == [key \in {d[i][1] : i \in 1..Len(d)} |->
                 (CHOOSE i \in 1..Len(d) : d[i][1] = key)]

ItemsToDict(d) == [key \in DOMAIN Lookup(d) |-> d[Lookup(d)[key]][2]]

\* The comprehension of get_default_values over the parameters still to
\* visit.
RECURSIVE default_items(_, _)
default_items(d, parameters) ==
    IF parameters = <<>> THEN d
    ELSE default_items(IF Head(parameters).default # PyNone
                       THEN SetItem(d, Head(parameters).name, Head(parameters).default)
                       ELSE d,
                       Tail(parameters))

\* TemplateSchema.get_default_values
get_default_values(self) == default_items(<<>>, self.parameters)

(***************************************************************************)
(* TemplateInheritance._merge_schemas.                                     *)
(***************************************************************************)
\* list(set(xs)): the distinct elements of xs in the set's iteration order,
\* which string hashing fixes per process; seed ranks the strings.
RECURSIVE ListOfSet(_, _)
ListOfSet(S, seed) ==
    IF S = {} THEN <<>>
    ELSE LET first == CHOOSE x \in S : \A y \in S : seed[x] <= seed[y]
         IN  <<first>> \o ListOfSet(S \ {first}, seed)

\* d[param.name] = param on a dict kept as the sequence of its values in
\* insertion order: an existing key keeps its place.
SetParam(d, param) ==
    IF \E i \in 1..Len(d) : d[i].name = param.name
    THEN [i \in 1..Len(d) |-> IF d[i].name = param.name THEN param ELSE d[i]]
    ELSE Append(d, param)

\* {p.name: p for p in params}, and the loop over the child's parameters.
RECURSIVE SetParams(_, _)
SetParams(d, params) ==
    IF params = <<>> THEN d ELSE SetParams(SetParam(d, Head(params)), Tail(params))

\* A schema merge that appends the child's parameters to the base's.
merge_schemas_appending(base_schema, child_schema, seed) ==
    TemplateSchema(child_schema.name, child_schema.version, child_schema.description,
                   child_schema.category, child_schema.author,
                   ListOfSet(Range(base_schema.tags \o child_schema.tags), seed),
                   base_schema.parameters \o child_schema.parameters,
                   child_schema.extends,
                   PyList(ListOfSet(Range(OrEmptyList(base_schema.requirements)
                                          \o OrEmptyList(child_schema.requirements)), seed)))

merge_schemas(base_schema, child_schema, seed) ==
    LET base_params == SetParams(<<>>, base_schema.parameters)
        merged_params == SetParams(base_params, child_schema.parameters)
        merged_tags == ListOfSet(Range(base_schema.tags \o child_schema.tags), seed)
        merged_requirements ==
            ListOfSet(Range(OrEmptyList(base_schema.requirements)
                            \o OrEmptyList(child_schema.requirements)), seed)
    IN  TemplateSchema(child_schema.name, child_schema.version, child_schema.description,
                       child_schema.category, child_schema.author, merged_tags,
                       merged_params, child_schema.extends, PyList(merged_requirements))

(***************************************************************************)
(* json.dumps, str.replace and json.loads.  A text is the sequence of its  *)
(* tokens: the punctuation of JSON, the literals, numbers, and inside a    *)
(* string the pieces of its content, where a placeholder {{ name }}, a     *)
(* quote and a backslash are pieces of their own.  The strings of the      *)
(* model hold braces only as whole placeholders, so str.replace finds a    *)
(* placeholder exactly where a piece is one.                               *)
(***************************************************************************)
QUOTE == "\""
BACKSLASH == "\\"
COMMA == ", "
COLON == ": "

\* f"{{{{ {param_name} }}}}"
Placeholder(param_name) == "{{ " \o param_name \o " }}"

\* The strings of the model that are more than one piece.
Pieces ==
    ("x-{{ lang }}" :> <<"x-", "{{ lang }}">>)
    @@ ("n-{{ count }}" :> <<"n-", "{{ count }}">>)
    @@ ("{{ lang }}-{{ region }}" :> <<"{{ lang }}", "-", "{{ region }}">>)
    @@ ("a\"b" :> <<"a", QUOTE, "b">>)

Atoms(s) ==
    IF s \in DOMAIN Pieces THEN Pieces[s] ELSE IF s = "" THEN <<>> ELSE <<s>>

\* The content of a string as json.dumps writes it: quote and backslash
\* escaped.
RECURSIVE Escaped(_)
Escaped(atoms) ==
    IF atoms = <<>> THEN <<>>
    ELSE (IF Head(atoms) \in {QUOTE, BACKSLASH} THEN <<BACKSLASH, Head(atoms)>>
          ELSE <<Head(atoms)>>)
         \o Escaped(Tail(atoms))

\* The numbers the model's documents hold, for reading a number token back.
MaxNumber == 9
Numbers == {PyInt(i) : i \in 0..MaxNumber} \cup {PyFloat(i) : i \in 0..MaxNumber}

NumberToken(value) ==
    IF value.t = "float" THEN ToString(value.v) \o ".0" ELSE ToString(value.v)

\* json.dumps(value).  The keys of a dict are written in the one order the
\* dict has; the documents of the model hold no placeholder in a key, so no
\* two keys of the text read back as one and the order decides nothing.
RECURSIVE dumps(_), dumps_elements(_), dumps_members(_, _)
dumps_elements(xs) ==
    IF xs = <<>> THEN <<>>
    ELSE dumps(Head(xs)) \o (IF Len(xs) > 1 THEN <<COMMA>> ELSE <<>>)
         \o dumps_elements(Tail(xs))

dumps_members(f, keys) ==
    IF keys = {} THEN <<>>
    ELSE LET key == CHOOSE k \in keys : TRUE
         IN  dumps(PyStr(key)) \o <<COLON>> \o dumps(f[key])
             \o (IF keys # {key} THEN <<COMMA>> ELSE <<>>)
             \o dumps_members(f, keys \ {key})

dumps(value) ==
    CASE value.t = "NoneType" -> <<"null">>
      [] value.t = "bool" -> IF value.v THEN <<"true">> ELSE <<"false">>
      [] value.t \in {"int", "float"} -> <<NumberToken(value)>>
      [] value.t = "str" -> <<QUOTE>> \o Escaped(Atoms(value.v)) \o <<QUOTE>>
      [] value.t = "list" -> <<"[">> \o dumps_elements(value.v) \o <<"]">>
      [] value.t = "dict" -> <<"{">> \o dumps_members(value.v, DOMAIN value.v) \o <<"}">>

\* text.replace(old, new): every occurrence, left to right, not overlapping.
StartsWith(text, old) ==
    /\ Len(old) <= Len(text)
    /\ \A i \in 1..Len(old) : text[i] = old[i]

RECURSIVE Replace(_, _, _)
Replace(text, old, new) ==
    IF text = <<>> THEN <<>>
    ELSE IF StartsWith(text, old)
    THEN new \o Replace(SubSeq(text, Len(old) + 1, Len(text)), old, new)
    ELSE <<Head(text)>> \o Replace(Tail(text), old, new)

\* json.loads(text): a parser returns the value it read and the text left,
\* or fails (JSONDecodeError).
Fail == [ok |-> FALSE]
Parsed(value, rest) == [ok |-> TRUE, value |-> value, rest |-> rest]

\* The content of a string after its opening quote, up to the closing one.
RECURSIVE parse_string(_, _)
parse_string(text, content) ==
    IF text = <<>> THEN Fail
    ELSE IF Head(text) = QUOTE THEN Parsed(content, Tail(text))
    ELSE IF Head(text) = BACKSLASH
    THEN IF Len(text) >= 2 /\ text[2] \in {QUOTE, BACKSLASH}
         THEN parse_string(Tail(Tail(text)), content \o text[2])
         ELSE Fail
    ELSE parse_string(Tail(text), content \o Head(text))

RECURSIVE parse_value(_), parse_elements(_, _), parse_members(_, _)
parse_value(text) ==
    IF text = <<>> THEN Fail
    ELSE LET token == Head(text)
         IN  CASE token = "null" -> Parsed(PyNone, Tail(text))
               [] token = "true" -> Parsed(PyBool(TRUE), Tail(text))
               [] token = "false" -> Parsed(PyBool(FALSE), Tail(text))
               [] token = QUOTE ->
                    LET string == parse_string(Tail(text), "")
                    IN  IF string.ok THEN Parsed(PyStr(string.value), string.rest) ELSE Fail
               [] token = "[" ->
                    IF Len(text) >= 2 /\ text[2] = "]"
                    THEN Parsed(PyList(<<>>), Tail(Tail(text)))
                    ELSE parse_elements(Tail(text), <<>>)
               [] token = "{" ->
                    IF Len(text) >= 2 /\ text[2] = "}"
                    THEN Parsed(PyDict(<<>>), Tail(Tail(text)))
                    ELSE parse_members(Tail(text), <<>>)
               [] OTHER ->
                    IF \E number \in Numbers : NumberToken(number) = token
                    THEN Parsed(CHOOSE number \in Numbers : NumberToken(number) = token,
                                Tail(text))
                    ELSE Fail

\* The elements of a list after '[' or ',', with those read so far.
parse_elements(text, xs) ==
    LET element == parse_value(text)
    IN  IF ~element.ok \/ element.rest = <<>> THEN Fail
        ELSE IF Head(element.rest) = "]"
        THEN Parsed(PyList(Append(xs, element.value)), Tail(element.rest))
        ELSE IF Head(element.rest) = COMMA
        THEN parse_elements(Tail(element.rest), Append(xs, element.value))
        ELSE Fail

\* The members of an object after '{' or ',', with those read so far; a key
\* read again replaces the member.
parse_members(text, f) ==
    IF text = <<>> \/ Head(text) # QUOTE THEN Fail
    ELSE LET key == parse_string(Tail(text), "")
         IN  IF ~key.ok \/ key.rest = <<>> \/ Head(key.rest) # COLON THEN Fail
             ELSE LET member == parse_value(Tail(key.rest))
                  IN  IF ~member.ok \/ member.rest = <<>> THEN Fail
                      ELSE IF Head(member.rest) = "}"
                      THEN Parsed(PyDict(Put(f, key.value, member.value)), Tail(member.rest))
                      ELSE IF Head(member.rest) = COMMA
                      THEN parse_members(Tail(member.rest), Put(f, key.value, member.value))
                      ELSE Fail

loads(text) ==
    LET document == parse_value(text)
    IN  IF document.ok /\ document.rest = <<>> THEN document ELSE Fail

(***************************************************************************)
(* template_manager.py: Template and TemplateManager.  A tier is a         *)
(* function from the names of its directories to directories, a directory  *)
(* a function from the names of its files to the documents json.dump wrote *)
(* there.                                                                  *)
(***************************************************************************)
Template(schema, config, template_path) ==
    [schema |-> schema, config |-> config, template_path |-> template_path]

\* The loop of apply_parameters over final_params.items().
RECURSIVE replace_placeholders(_, _)
replace_placeholders(config_str, final_params) ==
    IF final_params = <<>> THEN config_str
    ELSE LET param_name == Head(final_params)[1]
             param_value == Head(final_params)[2]
             placeholder == Placeholder(param_name)
         IN  replace_placeholders(
                 IF IsInstance(param_value, {"str"})
                 THEN Replace(config_str, <<placeholder>>, Atoms(param_value.v))
                 ELSE Replace(config_str, <<QUOTE, placeholder, QUOTE>>, dumps(param_value)),
                 Tail(final_params))

\* Template.apply_parameters; parameters is a dict in its caller's order.
apply_parameters(self, parameters) ==
    LET validation == validate_parameters(self.schema, ItemsToDict(parameters))
    IN  IF ~validation.ok
        THEN [status |-> "raised", exception |-> "TemplateValidationError",
              errors |-> validation.errors]
        ELSE LET final_params == Update(get_default_values(self.schema), parameters)
                 config_str == replace_placeholders(dumps(PyDict(self.config)), final_params)
                 config == loads(config_str)
             IN  IF config.ok
                 THEN [status |-> "returned", value |-> config.value]
                 ELSE [status |-> "raised", exception |-> "JSONDecodeError"]

\* A stored file that json.load cannot parse: it raises JSONDecodeError.
Unparseable == [error |-> "JSONDecodeError"]
JsonLoadRaises(document) == document = Unparseable

\* The try block of _load_template raises: the schema document does not
\* parse or from_dict rejects it, or the config document does not parse.
LoadRaises(template_dir) ==
    \/ JsonLoadRaises(template_dir["template.json"])
    \/ FromDictRaises(template_dir["template.json"])
    \/ JsonLoadRaises(template_dir["config.json"])

\* A load that asks for the schema document only and takes an absent
\* config document as empty.
load_template_schema_only(tier, tierName, dirname) ==
    LET template_dir == tier[dirname]
    IN  IF "template.json" \notin DOMAIN template_dir
        THEN Nothing
        ELSE IF JsonLoadRaises(template_dir["template.json"])
                \/ FromDictRaises(template_dir["template.json"])
        THEN Nothing
        ELSE IF "config.json" \notin DOMAIN template_dir
        THEN Some(Template(from_dict(template_dir["template.json"]), <<>>,
                           <<tierName, dirname>>))
        ELSE IF JsonLoadRaises(template_dir["config.json"])
        THEN Nothing
        ELSE Some(Template(from_dict(template_dir["template.json"]),
                           template_dir["config.json"], <<tierName, dirname>>))

\* TemplateManager._load_template on directory dirname of a tier.
load_template(tier, tierName, dirname) ==
    LET template_dir == tier[dirname]
    IN  IF ~({"template.json", "config.json"} \subseteq DOMAIN template_dir)
        THEN Nothing
        ELSE IF LoadRaises(template_dir)
        THEN Nothing
        ELSE Some(Template(from_dict(template_dir["template.json"]),
                           template_dir["config.json"], <<tierName, dirname>>))

\* What _load_template prints with print_warning for directory dirname.
load_template_warning(tier, tierName, dirname) ==
    LET template_dir == tier[dirname]
    IN  IF {"template.json", "config.json"} \subseteq DOMAIN template_dir
           /\ LoadRaises(template_dir)
        THEN <<<<"Failed to load template from", tierName, dirname>>>>
        ELSE <<>>

\* templates_dir.iterdir(): the directories of a tier in the file system's
\* order.  Every operation names a directory after its schema's name, so
\* names do not repeat within a tier and this order decides no lookup.
RECURSIVE iterdir(_)
iterdir(dirnames) ==
    IF dirnames = {} THEN <<>>
    ELSE LET first == CHOOSE d \in dirnames : TRUE
         IN  <<first>> \o iterdir(dirnames \ {first})

\* A loop that gives up at the first directory it cannot load.
RECURSIVE load_templates_stopping(_, _, _)
load_templates_stopping(tier, tierName, dirnames) ==
    IF dirnames = <<>> THEN <<>>
    ELSE IF IsNothing(load_template(tier, tierName, Head(dirnames))) THEN <<>>
    ELSE load_template(tier, tierName, Head(dirnames))
         \o load_templates_stopping(tier, tierName, Tail(dirnames))

\* TemplateManager._load_templates_from_dir
RECURSIVE load_templates(_, _, _)
load_templates(tier, tierName, dirnames) ==
    IF dirnames = <<>> THEN <<>>
    ELSE load_template(tier, tierName, Head(dirnames))
         \o load_templates(tier, tierName, Tail(dirnames))

load_templates_from_dir(tier, tierName) ==
    load_templates(tier, tierName, iterdir(DOMAIN tier))

\* The warnings of _load_templates_from_dir, in the order of its loop.
RECURSIVE load_warnings(_, _, _)
load_warnings(tier, tierName, dirnames) ==
    IF dirnames = <<>> THEN <<>>
    ELSE load_template_warning(tier, tierName, Head(dirnames))
         \o load_warnings(tier, tierName, Tail(dirnames))

\* What list_templates prints.
list_templates_console ==
    load_warnings(predefined, "predefined", iterdir(DOMAIN predefined))
    \o load_warnings(user, "user", iterdir(DOMAIN user))

\* [t for t in templates if t.schema.category == category]
RECURSIVE FilterCategory(_, _)
FilterCategory(templates, category) ==
    IF templates = <<>> THEN <<>>
    ELSE (IF Head(templates).schema.category = category THEN <<Head(templates)>> ELSE <<>>)
         \o FilterCategory(Tail(templates), category)

\* TemplateManager.list_templates; category is PyNone or a TemplateCategory
\* member.
list_templates(category) ==
    LET templates == load_templates_from_dir(predefined, "predefined")
                     \o load_templates_from_dir(user, "user")
    IN  IF category # PyNone THEN FilterCategory(templates, category) ELSE templates

\* A lookup that keeps looking after its first match and returns the last.
get_template_last_match(template_name, version) ==
    LET templates == list_templates(PyNone)
        matches == {i \in 1..Len(templates) :
                       /\ templates[i].schema.name = template_name
                       /\ (version.t = "NoneType" \/ templates[i].schema.version = version.v)}
    IN  IF matches = {} THEN Nothing
        ELSE Some(templates[CHOOSE i \in matches : \A j \in matches : i >= j])

\* TemplateManager.get_template; version is PyNone or PyStr(<version>).
get_template(template_name, version) ==
    LET templates == list_templates(PyNone)
        matches == {i \in 1..Len(templates) :
                       /\ templates[i].schema.name = template_name
                       /\ (version.t = "NoneType" \/ templates[i].schema.version = version.v)}
    IN  IF matches = {} THEN Nothing
        ELSE Some(templates[CHOOSE i \in matches : \A j \in matches : i <= j])

(***************************************************************************)
(* template_inheritance.py: TemplateInheritance on the store.  What an     *)
(* operation prints with print_error is returned beside its value, as      *)
(* console.                                                                *)
(***************************************************************************)
\* A merge that lets the base win: the arguments of both merges swapped.
merge_templates_base_wins(base_template, child_template, seed) ==
    Template(merge_schemas(child_template.schema, base_template.schema, seed),
             merge_configs(child_template.config, base_template.config),
             child_template.template_path)

\* TemplateInheritance._merge_templates
merge_templates(base_template, child_template, seed) ==
    Template(merge_schemas(base_template.schema, child_template.schema, seed),
             merge_configs(base_template.config, child_template.config),
             child_template.template_path)

Returned(template, console) ==
    [status |-> "returned", template |-> template, console |-> console]

\* The recursion outgrew the interpreter's limit: RecursionError leaves
\* resolve_template, which catches nothing.
RecursionError == [status |-> "RecursionError"]

RECURSIVE resolve_template(_, _, _)

\* A resolve that, finding no base, returns the child with extends cleared.
resolve_template_clearing_extends(template, depth, seed) ==
    IF ~Truthy(template.schema.extends)
    THEN Returned(template, <<>>)
    ELSE LET base_template == get_template(template.schema.extends.v, PyNone)
         IN  IF IsNothing(base_template)
             THEN Returned([template EXCEPT !.schema.extends = PyNone],
                           <<<<"Base template not found", template.schema.extends.v>>>>)
             ELSE IF depth + 1 > RecursionLimit THEN RecursionError
             ELSE LET resolved_base == resolve_template(The(base_template), depth + 1, seed)
                  IN  IF resolved_base.status # "returned" THEN resolved_base
                      ELSE Returned(merge_templates(resolved_base.template, template, seed),
                                    resolved_base.console)

\* TemplateInheritance.resolve_template, called at recursion depth `depth`.
resolve_template(template, depth, seed) ==
    IF ~Truthy(template.schema.extends)
    THEN Returned(template, <<>>)
    ELSE LET base_template == get_template(template.schema.extends.v, PyNone)
         IN  IF IsNothing(base_template)
             THEN Returned(template,
                           <<<<"Base template not found", template.schema.extends.v>>>>)
             ELSE IF depth + 1 > RecursionLimit THEN RecursionError
             ELSE LET resolved_base == resolve_template(The(base_template), depth + 1, seed)
                  IN  IF resolved_base.status # "returned" THEN resolved_base
                      ELSE Returned(merge_templates(resolved_base.template, template, seed),
                                    resolved_base.console)

\* The while loop of get_inheritance_chain, entered with the chain built so
\* far and the name to visit next.
RECURSIVE chain_loop(_, _, _)
chain_loop(template_name, chain, current_template_name) ==
    IF current_template_name = ""
    THEN [chain |-> chain, console |-> <<>>]
    ELSE LET appended == Append(chain, current_template_name)
             template == get_template(current_template_name, PyNone)
         IN  IF IsNothing(template) \/ ~Truthy(The(template).schema.extends)
             THEN [chain |-> appended, console |-> <<>>]
             ELSE IF The(template).schema.extends.v \in Range(appended)
             THEN [chain |-> appended,
                   console |-> <<<<"Circular inheritance detected in template", template_name>>>>]
             ELSE chain_loop(template_name, appended, The(template).schema.extends.v)

\* TemplateInheritance.get_inheritance_chain: the list it returns.
get_inheritance_chain(template_name) ==
    chain_loop(template_name, <<>>, template_name).chain

\* The 'not found' errors of validate_inheritance, in chain order.
RECURSIVE missing_errors(_)
missing_errors(chain) ==
    IF chain = <<>> THEN <<>>
    ELSE (IF IsNothing(get_template(Head(chain), PyNone))
          THEN <<<<"not found in inheritance chain", Head(chain)>>>>
          ELSE <<>>)
         \o missing_errors(Tail(chain))

\* TemplateInheritance.validate_inheritance
validate_inheritance(template_name) ==
    LET chain == get_inheritance_chain(template_name)
        errors == (IF Len(chain) # Cardinality(Range(chain))
                   THEN <<<<"Circular inheritance detected", "">>>>
                   ELSE <<>>)
                  \o missing_errors(chain)
    IN  [ok |-> Len(errors) = 0, errors |-> errors]

(***************************************************************************)
(* template_service.py: TemplateService.                                   *)
(***************************************************************************)
\* TemplateService._merge_configs: the loop over template_config.items().
RECURSIVE service_merge_configs(_, _), service_merge_items(_, _, _)
service_merge_items(merged, template_config, keys) ==
    IF keys = {} THEN merged
    ELSE LET key == CHOOSE k \in keys : TRUE
             value == template_config[key]
         IN  service_merge_items(
                 IF key \in DOMAIN merged /\ IsInstance(merged[key], {"dict"})
                                          /\ IsInstance(value, {"dict"})
                 THEN Put(merged, key, PyDict(service_merge_configs(merged[key].v, value.v)))
                 ELSE Put(merged, key, value),
                 template_config, keys \ {key})

\* A merge that follows the composer's rule and appends sequences.
service_merge_configs_appending(base_config, template_config) ==
    deep_merge(base_config, template_config)

service_merge_configs(base_config, template_config) ==
    service_merge_items(base_config, template_config, DOMAIN template_config)

\* The 'template' block apply_template adds.
template_metadata(template, parameters) ==
    PyDict([name |-> PyStr(template.schema.name),
            version |-> PyStr(template.schema.version),
            applied_at |-> PyNone,
            parameters |-> PyDict(ItemsToDict(parameters))])

\* What json.load reads from the file json.dump wrote.
json_file(document) == loads(dumps(PyDict(document))).value.v

\* An apply that opens pipeline.json for writing before it validates: a
\* failed validation leaves the file empty.
apply_template_opening_first(template_name, parameters) ==
    LET template == get_template(template_name, PyNone)
        supplied == IF IsNothing(parameters) THEN <<>> ELSE The(parameters)
    IN  IF IsNothing(template)
        THEN [value |-> FALSE, pipeline_json |-> pipeline_json]
        ELSE LET config == apply_parameters(The(template), supplied)
             IN  IF config.status = "raised"
                 THEN [value |-> FALSE, pipeline_json |-> Some(<<>>)]
                 ELSE LET merged_config ==
                              IF ~IsNothing(pipeline_json)
                              THEN service_merge_configs(The(pipeline_json), config.value.v)
                              ELSE config.value.v
                      IN  [value |-> TRUE,
                           pipeline_json |->
                               Some(json_file(Put(merged_config, "template",
                                                  template_metadata(The(template), supplied))))]

\* An apply that records the template's name as the provenance, not the
\* block of name, version, applied_at and parameters.
apply_template_naming_only(template_name, parameters) ==
    LET template == get_template(template_name, PyNone)
        supplied == IF IsNothing(parameters) THEN <<>> ELSE The(parameters)
    IN  IF IsNothing(template)
        THEN [value |-> FALSE, pipeline_json |-> pipeline_json]
        ELSE LET config == apply_parameters(The(template), supplied)
             IN  IF config.status = "raised"
                 THEN [value |-> FALSE, pipeline_json |-> pipeline_json]
                 ELSE LET merged_config ==
                              IF ~IsNothing(pipeline_json)
                              THEN service_merge_configs(The(pipeline_json), config.value.v)
                              ELSE config.value.v
                      IN  [value |-> TRUE,
                           pipeline_json |->
                               Some(json_file(Put(merged_config, "template",
                                                  PyStr(The(template).schema.name))))]

\* TemplateService.apply_template: what it returns and the pipeline.json it
\* leaves.  parameters is Nothing (None) or the dict; both exceptions of
\* apply_parameters are caught and False returned.
apply_template(template_name, parameters) ==
    LET template == get_template(template_name, PyNone)
        supplied == IF IsNothing(parameters) THEN <<>> ELSE The(parameters)
    IN  IF IsNothing(template)
        THEN [value |-> FALSE, pipeline_json |-> pipeline_json]
        ELSE LET config == apply_parameters(The(template), supplied)
             IN  IF config.status = "raised"
                 THEN [value |-> FALSE, pipeline_json |-> pipeline_json]
                 ELSE LET merged_config ==
                              IF ~IsNothing(pipeline_json)
                              THEN service_merge_configs(The(pipeline_json), config.value.v)
                              ELSE config.value.v
                      IN  [value |-> TRUE,
                           pipeline_json |->
                               Some(json_file(Put(merged_config, "template",
                                                  template_metadata(The(template), supplied))))]

(***************************************************************************)
(* Inputs of the pure functions.                                           *)
(***************************************************************************)
\* Config bodies: dicts over the keys a, b whose values are integers,
\* lists and nested dicts, and the bodies of the documented example.
IntLeaves == {PyInt(i) : i \in 1..MaxInt}

ListLeaves ==
    {PyList(<<>>), PyList(<<PyInt(1), PyInt(2)>>), PyList(<<PyInt(3)>>)}

NestedDicts ==
    {PyDict(<<>>), PyDict("x" :> PyInt(1)), PyDict("x" :> PyInt(2)), PyDict("y" :> PyInt(2)),
     PyDict(("x" :> PyInt(2)) @@ ("y" :> PyInt(1)))}

ConfigValues == IntLeaves \cup ListLeaves \cup NestedDicts

ExampleBase == ("a" :> PyDict("x" :> PyInt(1))) @@ ("b" :> PyList(<<PyInt(1), PyInt(2)>>))
ExampleChild == ("a" :> PyDict("y" :> PyInt(2))) @@ ("b" :> PyList(<<PyInt(3)>>))
ExampleMerged ==
    ("a" :> PyDict(("x" :> PyInt(1)) @@ ("y" :> PyInt(2))))
    @@ ("b" :> PyList(<<PyInt(1), PyInt(2), PyInt(3)>>))

\* Three levels deep: the recursion recurses.
DeepBase == "a" :> PyDict(("x" :> PyDict("k" :> PyList(<<PyInt(1)>>))) @@ ("y" :> PyInt(1)))
DeepChild == "a" :> PyDict(("x" :> PyDict(("k" :> PyList(<<PyInt(2)>>)) @@ ("m" :> PyInt(2)))))

ConfigBodies ==
    UNION {[K -> ConfigValues] : K \in SUBSET {"a", "b"}} \cup {DeepBase, DeepChild}

\* ParameterSpecs to validate against, and the values supplied to them.
Bounds == {PyNone} \cup {PyInt(i) : i \in 0..MaxInt}

ValidateParameters ==
    {TemplateParameter("p", type, "d", default, required, options, min_value, max_value, PyNone) :
        type \in {ParameterTypeOf(value) : value \in ParameterType},
        default \in {PyNone, PyStr("us-east-1")},
        required \in BOOLEAN, options \in {PyNone, PyList(<<PyStr("a"), PyStr("b")>>)},
        min_value \in Bounds, max_value \in Bounds}

SuppliedValues ==
    {PyNone, PyBool(TRUE), PyBool(FALSE), PyFloat(1), PyStr("a"), PyStr("c"),
     PyList(<<>>), PyList(<<PyStr("a")>>), PyDict(<<>>)}
    \cup {PyInt(i) : i \in 0..(MaxInt + 1)}

\* Schemas to merge: two identities, parameter lists over a pool in which
\* two ParameterSpecs share the name lang, and tags / requirements that
\* overlap, repeat and are absent.
ParameterPool ==
    {TemplateParameter("lang", ParameterType_STRING, "language", PyNone, TRUE, PyNone, PyNone, PyNone, PyNone),
     TemplateParameter("lang", ParameterType_SELECT, "language", PyStr("a"), FALSE,
                       PyList(<<PyStr("a"), PyStr("b")>>), PyNone, PyNone, PyNone),
     TemplateParameter("region", ParameterType_STRING, "region", PyStr("us-east-1"), FALSE,
                       PyNone, PyNone, PyNone, PyNone)}

TagsAndRequirements ==
    {<<(<<>>), PyNone>>,
     <<(<<"web">>), PyList(<<"aws">>)>>,
     <<(<<"api", "web", "api">>), PyList(<<"aws", "aws">>)>>}

Identities ==
    {[name |-> "T1", version |-> "1.0.0", description |-> "first", category |-> TemplateCategoryOf("api"),
      author |-> "alice", extends |-> PyNone],
     [name |-> "T2", version |-> "2.0.0", description |-> "second", category |-> TemplateCategoryOf("custom"),
      author |-> "bob", extends |-> PyStr("T1")]}

Schemas ==
    {TemplateSchema(id.name, id.version, id.description, id.category, id.author,
                    tr[1], parameters, id.extends, tr[2]) :
        id \in Identities, tr \in TagsAndRequirements,
        parameters \in SeqsUpTo(ParameterPool, MaxParams)}

\* Parameter lists and value maps for validate_parameters: four
\* ParameterSpecs over three names, and maps that leave a name out, hold it
\* as None, or hold a value of one kind or another.
DeclaredPool ==
    {TemplateParameter("lang", ParameterType_STRING, "language", PyNone, TRUE, PyNone, PyNone, PyNone, PyNone),
     TemplateParameter("lang", ParameterType_SELECT, "language", PyStr("a"), FALSE,
                       PyList(<<PyStr("a"), PyStr("b")>>), PyNone, PyNone, PyNone),
     TemplateParameter("count", ParameterType_INTEGER, "count", PyNone, TRUE, PyNone,
                       PyInt(1), PyInt(MaxInt), PyNone),
     TemplateParameter("region", ParameterType_STRING, "region", PyStr("us-east-1"), FALSE,
                       PyNone, PyNone, PyNone, PyNone)}

DeclaredSchemas ==
    {TemplateSchema("T1", "1.0.0", "first", TemplateCategoryOf("api"), "alice", <<>>,
                    parameters, PyNone, PyNone) :
        parameters \in SeqsUpTo(DeclaredPool, MaxParams)}

ValueMaps ==
    UNION {[K -> {PyNone, PyStr("a"), PyInt(0), PyInt(1)}] :
              K \in SUBSET {"lang", "count", "region"}}

\* Schemas to serialize: the schemas above, and schemas of one parameter in
\* every combination of absent and present optional fields.
OptionalFieldParameters ==
    {TemplateParameter("p", type, "d", default, required, options, min_value, max_value, pattern) :
        type \in {ParameterType_STRING, ParameterType_INTEGER, ParameterType_SELECT},
        default \in {PyNone, PyStr("a")},
        required \in BOOLEAN, options \in {PyNone, PyList(<<PyStr("a"), PyStr("b")>>)},
        min_value \in {PyNone, PyInt(0)}, max_value \in {PyNone, PyInt(MaxInt)},
        pattern \in {PyNone, PyStr("^a$")}}

RoundTripSchemas ==
    Schemas
    \cup {TemplateSchema(id.name, id.version, id.description, id.category, id.author,
                         tr[1], <<parameter>>, id.extends, tr[2]) :
              id \in Identities, tr \in TagsAndRequirements,
              parameter \in OptionalFieldParameters}

\* Templates to apply parameters to: config bodies that hold a placeholder
\* as a whole string, inside a longer string, in a list and in a nested
\* dict, under parameter lists in which region declares a default, required
\* or not, and count is an integer.
PlaceholderPool ==
    {TemplateParameter("lang", ParameterType_STRING, "language", PyNone, TRUE,
                       PyNone, PyNone, PyNone, PyNone),
     TemplateParameter("region", ParameterType_STRING, "region", PyStr("us-east-1"), TRUE,
                       PyNone, PyNone, PyNone, PyNone),
     TemplateParameter("region", ParameterType_STRING, "region", PyStr("us-east-1"), FALSE,
                       PyNone, PyNone, PyNone, PyNone),
     TemplateParameter("count", ParameterType_INTEGER, "count", PyNone, TRUE,
                       PyNone, PyInt(1), PyNone, PyNone)}

RuntimeBody == "runtime" :> PyStr("{{ lang }}")

PlaceholderBodies ==
    {RuntimeBody,
     ("region" :> PyStr("{{ region }}"))
         @@ ("env" :> PyDict("name" :> PyStr("{{ lang }}-{{ region }}"))),
     ("n" :> PyStr("{{ count }}")) @@ ("label" :> PyStr("n-{{ count }}"))
         @@ ("l" :> PyList(<<PyStr("x-{{ lang }}"), PyInt(3)>>))}

PlaceholderTemplates ==
    {Template(TemplateSchema("T1", "1.0.0", "first", TemplateCategoryOf("api"), "alice",
                             <<>>, parameters, PyNone, PyNone),
              config, <<"user", "T1">>) :
        parameters \in SeqsUpTo(PlaceholderPool, MaxParams), config \in PlaceholderBodies}

\* The parameters a caller supplies, as the dict's items in its order.
SuppliedItems ==
    {<<>>,
     <<<<"lang", PyStr("python")>>>>,
     <<<<"lang", PyStr("a\"b")>>>>,
     <<<<"lang", PyInt(1)>>>>,
     <<<<"region", PyStr("eu-west-1")>>>>,
     <<<<"region", PyNone>>>>,
     <<<<"count", PyInt(1)>>>>,
     <<<<"count", PyInt(0)>>>>,
     <<<<"count", PyInt(1)>>, <<"lang", PyStr("python")>>>>,
     <<<<"lang", PyStr("python")>>, <<"region", PyStr("eu-west-1")>>>>}

HashedStrings == {"web", "api", "aws"}

\* The orders in which a set of these strings can iterate.  Tags and
\* requirements are hashed into separate sets and aws is the one requirement
\* string, so its rank decides no order and is kept last.
Seeds ==
    {seed \in [HashedStrings -> 1..Cardinality(HashedStrings)] :
        /\ \A x, y \in HashedStrings : x # y => seed[x] # seed[y]
        /\ seed["aws"] = Cardinality(HashedStrings)}

(***************************************************************************)
(* SpecPure: one call of a pure function on inputs drawn from the sets     *)
(* above.                                                                  *)
(***************************************************************************)
Pending == [done |-> FALSE]
Done(value) == [done |-> TRUE, value |-> value]

NoCall == [fn |-> "none"]
NoOp == [name |-> "none"]

\* No NotificationService has been constructed.
NoService == [constructed |-> FALSE]

\* The call a behaviour makes, with its arguments.
PureInit ==
    /\ \/ \E b \in ConfigBodies, c \in ConfigBodies :
              call = [fn |-> "merge_configs", base_config |-> b, child_config |-> c]
       \/ \E b \in Schemas, c \in Schemas :
              call = [fn |-> "merge_schemas", base_schema |-> b, child_schema |-> c]
       \/ \E p \in ValidateParameters, v \in SuppliedValues :
              call = [fn |-> "validate", self |-> p, value |-> v]
       \/ \E schema \in DeclaredSchemas, values \in ValueMaps :
              call = [fn |-> "validate_parameters", self |-> schema, values |-> values]
       \/ \E schema \in RoundTripSchemas :
              call = [fn |-> "from_dict", self |-> schema]
       \/ \E template \in PlaceholderTemplates, parameters \in SuppliedItems :
              call = [fn |-> "apply_parameters", self |-> template,
                      parameters |-> parameters]
    /\ out = Pending
    /\ predefined = <<>>
    /\ user = <<>>
    /\ op = NoOp
    /\ ret = Pending
    /\ pipeline_json = Nothing
    /\ service = NoService
    /\ cwd = <<>>

MergeConfigs ==
    /\ call.fn = "merge_configs"
    /\ ~out.done
    /\ out' = Done(merge_configs(call.base_config, call.child_config))
    /\ UNCHANGED <<predefined, user, op, ret, call, pipeline_json, service, cwd>>

\* The process's string hashing (seed) is drawn per call.
MergeSchemas ==
    /\ call.fn = "merge_schemas"
    /\ ~out.done
    /\ \E seed \in Seeds :
           out' = Done(merge_schemas(call.base_schema, call.child_schema, seed))
    /\ UNCHANGED <<predefined, user, op, ret, call, pipeline_json, service, cwd>>

Validate ==
    /\ call.fn = "validate"
    /\ ~out.done
    /\ out' = Done(validate(call.self, call.value))
    /\ UNCHANGED <<predefined, user, op, ret, call, pipeline_json, service, cwd>>

\* TemplateSchema.validate_parameters
SchemaValidateParameters ==
    /\ call.fn = "validate_parameters"
    /\ ~out.done
    /\ out' = Done(validate_parameters(call.self, call.values))
    /\ UNCHANGED <<predefined, user, op, ret, call, pipeline_json, service, cwd>>

\* TemplateSchema.from_dict(self.to_dict())
FromDictToDict ==
    /\ call.fn = "from_dict"
    /\ ~out.done
    /\ out' = Done(IF FromDictRaises(to_dict(call.self))
                   THEN [status |-> "raised"]
                   ELSE [status |-> "returned", value |-> from_dict(to_dict(call.self))])
    /\ UNCHANGED <<predefined, user, op, ret, call, pipeline_json, service, cwd>>

\* Template.apply_parameters
ApplyParameters ==
    /\ call.fn = "apply_parameters"
    /\ ~out.done
    /\ out' = Done(apply_parameters(call.self, call.parameters))
    /\ UNCHANGED <<predefined, user, op, ret, call, pipeline_json, service, cwd>>

PureNext ==
    \/ ApplyParameters
    \/ MergeConfigs
    \/ MergeSchemas
    \/ Validate
    \/ SchemaValidateParameters
    \/ FromDictToDict

SpecPure == PureInit /\ [][PureNext]_vars

(***************************************************************************)
(* Spec: the store and the composer.                                       *)
(***************************************************************************)
Names == {"A", "B", "C"}

\* What create_template is called with beside the name and extends:
\* config, parameters (Optional list of parameter documents) and tags
\* (Optional list).  The configs meet in a mapping (a), a sequence (b) and a
\* key that is a mapping on one side and a scalar on the other (c).  The
\* last entry's parameter document lacks its type.
Catalog ==
    {[description |-> "base", category |-> TemplateCategoryOf("api"), author |-> "alice",
      config |-> ExampleBase @@ ("c" :> PyDict("x" :> PyInt(1))),
      parameters |-> PyList(<<[name |-> "lang", type |-> "string", description |-> "language"],
                              [name |-> "region", type |-> "string", description |-> "region",
                               default |-> PyStr("us-east-1"), required |-> FALSE]>>),
      tags |-> PyList(<<"web">>)],
     [description |-> "child", category |-> TemplateCategoryOf("custom"), author |-> "bob",
      config |-> ExampleChild @@ ("c" :> PyInt(2)),
      parameters |-> PyNone,
      tags |-> PyList(<<"api">>)],
     [description |-> "malformed", category |-> TemplateCategoryOf("custom"), author |-> "bob",
      config |-> ExampleChild,
      parameters |-> PyList(<<[name |-> "lang"]>>),
      tags |-> PyNone]}

ExtendsChoices == {PyNone} \cup {PyStr(n) : n \in Names}

\* The predefined tier as shipped: absent, or holding one template.
PredefinedTiers ==
    {<<>>,
     "A" :> (("template.json" :>
                 to_dict(TemplateSchema("A", "1.0.0", "shipped", TemplateCategoryOf("devops"),
                                        "vendor", <<"web">>,
                                        <<>>, PyNone, PyList(<<"aws">>))))
             @@ ("config.json" :> ("b" :> PyList(<<PyInt(2)>>))))}

Init ==
    /\ predefined \in PredefinedTiers
    /\ user = <<>>
    /\ op = NoOp
    /\ ret = Pending
    /\ call = NoCall
    /\ out = Pending
    /\ pipeline_json = Nothing
    /\ service = NoService
    /\ cwd = <<>>

\* TemplateManager.create_template(name, args.description, args.category,
\* args.author, args.config, args.parameters, args.tags, extends)
create_template(name, args, extends) ==
        LET schema_data ==
                [name |-> name, version |-> "1.0.0", description |-> args.description,
                 category |-> args.category.value, author |-> args.author,
                 tags |-> OrEmptyList(args.tags),
                 parameters |-> OrEmptyList(args.parameters), extends |-> extends]
            template_dir == IF name \in DOMAIN user THEN user[name] ELSE <<>>
        IN  /\ op' = [name |-> "create_template", arg |-> name]
            /\ IF FromDictRaises(schema_data)
               THEN /\ user' = Put(user, name, template_dir)
                    /\ ret' = [status |-> "raised"]
               ELSE LET schema == from_dict(schema_data)
                    IN  /\ user' = Put(user, name,
                                       Put(Put(template_dir, "template.json", to_dict(schema)),
                                           "config.json", args.config))
                        /\ ret' = [status |-> "returned",
                                   value |-> Template(schema, args.config, <<"user", name>>)]
            /\ UNCHANGED <<predefined, call, out, pipeline_json, service, cwd>>

CreateTemplate ==
    \E name \in Names, args \in Catalog, extends \in ExtendsChoices :
        create_template(name, args, extends)

\* TemplateManager.delete_template; shutil.rmtree is taken to succeed.
DeleteTemplate ==
    \E template_name \in Names :
        /\ op' = [name |-> "delete_template", arg |-> template_name]
        /\ IF template_name \notin DOMAIN user
           THEN /\ ret' = [status |-> "returned", value |-> FALSE]
                /\ user' = user
           ELSE /\ ret' = [status |-> "returned", value |-> TRUE]
                /\ user' = [d \in (DOMAIN user) \ {template_name} |-> user[d]]
        /\ UNCHANGED <<predefined, call, out, pipeline_json, service, cwd>>

\* What import_template is pointed at: a file with its suffix and, where it
\* parses, its document; a directory with its files; or nothing at all.
ImportSources ==
    LET schema == TemplateSchema("B", "2.0.0", "imported", TemplateCategoryOf("custom"),
                                 "carol", <<>>, <<>>, PyStr("A"), PyNone)
    IN  {[kind |-> "file", suffix |-> ".json",
          data |-> [schema |-> to_dict(schema), config |-> ExampleChild]],
         [kind |-> "file", suffix |-> ".json", data |-> [schema |-> to_dict(schema)]],
         [kind |-> "file", suffix |-> ".json", data |-> [config |-> ExampleChild]],
         [kind |-> "file", suffix |-> ".txt", data |-> <<>>],
         [kind |-> "dir", files |-> ("template.json" :> to_dict(schema))
                                    @@ ("config.json" :> ExampleBase)],
         [kind |-> "dir", files |-> ("config.json" :> ExampleBase)],
         [kind |-> "missing"]}

\* An import that leaves a user template of the same name as it was.
import_template_keeping_existing(template_file) ==
    LET template_data == IF template_file.kind = "file" THEN template_file.data ELSE <<>>
        documents ==
            IF template_file.kind = "file" /\ template_file.suffix = ".json"
               /\ {"schema", "config"} \subseteq DOMAIN template_data
            THEN ("template.json" :> template_data.schema) @@ ("config.json" :> template_data.config)
            ELSE IF template_file.kind = "dir" THEN template_file.files
            ELSE <<>>
        template == load_template("source" :> documents, "user", "source")
    IN  IF IsNothing(template) THEN [value |-> Nothing, user |-> user]
        ELSE LET name == The(template).schema.name
             IN  [value |-> Some(Template(The(template).schema, The(template).config,
                                          <<"user", name>>)),
                  user |-> IF name \in DOMAIN user THEN user
                           ELSE Put(user, name,
                                    ("template.json" :> to_dict(The(template).schema))
                                    @@ ("config.json" :> The(template).config))]

\* TemplateManager.import_template with _import_single_template and
\* _import_directory_template: what it returns and the user tier it leaves.
\* Every exception is caught and None returned.
import_template(template_file) ==
    IF template_file.kind = "file" /\ template_file.suffix = ".json"
    THEN LET template_data == template_file.data
         IN  IF "schema" \notin DOMAIN template_data
                \/ FromDictRaises(template_data.schema)
                \/ "config" \notin DOMAIN template_data
             THEN [value |-> Nothing, user |-> user]
             ELSE LET schema == from_dict(template_data.schema)
                      config == template_data.config
                      template_dir == IF schema.name \in DOMAIN user
                                      THEN user[schema.name] ELSE <<>>
                  IN  [value |-> Some(Template(schema, config, <<"user", schema.name>>)),
                       user |-> Put(user, schema.name,
                                    Put(Put(template_dir, "template.json", to_dict(schema)),
                                        "config.json", config))]
    ELSE IF template_file.kind = "dir"
    THEN LET template == load_template("source" :> template_file.files, "source", "source")
         IN  IF IsNothing(template)
             THEN [value |-> Nothing, user |-> user]
             ELSE [value |-> Some(Template(The(template).schema, The(template).config,
                                           <<"user", The(template).schema.name>>)),
                   user |-> Put(user, The(template).schema.name, template_file.files)]
    ELSE [value |-> Nothing, user |-> user]

\* import_template has put its template over a user template of the same
\* name that held other documents.
Replaces(template_file) ==
    LET imported == import_template(template_file)
    IN  /\ ~IsNothing(imported.value)
        /\ LET name == The(imported.value).schema.name
           IN  /\ name \in DOMAIN user
               /\ ~IsNothing(load_template(user, "user", name))
               /\ user[name]["template.json"] # imported.user[name]["template.json"]
               /\ user[name]["config.json"] # imported.user[name]["config.json"]

ImportTemplate ==
    \E template_file \in ImportSources :
        /\ op' = [name |-> "import_template", arg |-> template_file,
                  replaced |-> Replaces(template_file)]
        /\ ret' = [status |-> "returned", value |-> import_template(template_file).value]
        /\ user' = import_template(template_file).user
        /\ UNCHANGED <<predefined, call, out, pipeline_json, service, cwd>>

\* TemplateInheritance.get_inheritance_chain
GetInheritanceChain ==
    \E template_name \in Names :
        /\ op' = [name |-> "get_inheritance_chain", arg |-> template_name]
        /\ ret' = [status |-> "returned",
                   value |-> get_inheritance_chain(template_name),
                   console |-> chain_loop(template_name, <<>>, template_name).console]
        /\ UNCHANGED <<predefined, user, call, out, pipeline_json, service, cwd>>

\* TemplateInheritance.validate_inheritance
ValidateInheritance ==
    \E template_name \in Names :
        /\ op' = [name |-> "validate_inheritance", arg |-> template_name]
        /\ ret' = [status |-> "returned", value |-> validate_inheritance(template_name)]
        /\ UNCHANGED <<predefined, user, call, out, pipeline_json, service, cwd>>

\* TemplateInheritance.resolve_template on a template got from the store.
ResolveTemplate ==
    \E template_name \in Names, seed \in Seeds :
        /\ ~IsNothing(get_template(template_name, PyNone))
        /\ op' = [name |-> "resolve_template", arg |-> template_name]
        /\ ret' = resolve_template(The(get_template(template_name, PyNone)), 0, seed)
        /\ UNCHANGED <<predefined, user, call, out, pipeline_json, service, cwd>>

Next ==
    \/ CreateTemplate
    \/ DeleteTemplate
    \/ ImportTemplate
    \/ GetInheritanceChain
    \/ ValidateInheritance
    \/ ResolveTemplate

Spec == Init /\ [][Next]_vars

(***************************************************************************)
(* SpecApply: a store of templates with placeholders and a project whose   *)
(* pipeline.json TemplateService.apply_template writes.                    *)
(***************************************************************************)
ApplyNames == {"T1", "T2"}

\* The project's pipeline.json before the first apply: absent, or a
\* document that meets the templates' configs in a mapping (a), a sequence
\* (b) and a scalar (runtime) and holds a key of its own (keep).
ExistingDocument ==
    ("keep" :> PyInt(1)) @@ ("a" :> PyDict("x" :> PyInt(1)))
    @@ ("b" :> PyList(<<PyInt(1), PyInt(2)>>)) @@ ("runtime" :> PyStr("go"))

\* The templates the store is given: T1 is the documented example or
\* declares an integer, T2 declares a region with a default and extends T1
\* or nothing.
ApplyCatalog ==
    {[name |-> "T1", extends |-> PyNone,
      description |-> "runtime", category |-> TemplateCategoryOf("api"), author |-> "alice",
      config |-> RuntimeBody,
      parameters |-> PyList(<<[name |-> "lang", type |-> "string",
                               description |-> "language"]>>),
      tags |-> PyNone],
     [name |-> "T1", extends |-> PyNone,
      description |-> "count", category |-> TemplateCategoryOf("custom"), author |-> "bob",
      config |-> ("n" :> PyStr("{{ count }}")) @@ ("label" :> PyStr("n-{{ count }}")),
      parameters |-> PyList(<<[name |-> "count", type |-> "integer", description |-> "count",
                               min_value |-> PyInt(1)]>>),
      tags |-> PyNone]}
    \cup
    {[name |-> "T2", extends |-> extends,
      description |-> "region", category |-> TemplateCategoryOf("devops"), author |-> "bob",
      config |-> ("region" :> PyStr("{{ region }}")) @@ ("a" :> PyDict("y" :> PyInt(2)))
                 @@ ("b" :> PyList(<<PyInt(3)>>)),
      parameters |-> PyList(<<[name |-> "region", type |-> "string", description |-> "region",
                               default |-> PyStr("us-east-1"), required |-> FALSE]>>),
      tags |-> PyNone] : extends \in {PyNone, PyStr("T1")}}

\* parameters of apply_template: None or a dict.
SuppliedParameters ==
    {Nothing,
     Some(<<<<"lang", PyStr("python")>>>>),
     Some(<<<<"lang", PyStr("a\"b")>>>>),
     Some(<<<<"lang", PyInt(1)>>>>),
     Some(<<<<"region", PyStr("eu-west-1")>>>>),
     Some(<<<<"count", PyInt(1)>>>>)}

ApplyInit ==
    /\ predefined = <<>>
    /\ user = <<>>
    /\ op = NoOp
    /\ ret = Pending
    /\ call = NoCall
    /\ out = Pending
    /\ pipeline_json \in {Nothing, Some(ExistingDocument)}
    /\ service = NoService
    /\ cwd = <<>>

CreatePlaceholderTemplate ==
    \E args \in ApplyCatalog : create_template(args.name, args, args.extends)

\* TemplateService.apply_template; op keeps the pipeline.json the call found.
ApplyTemplate ==
    \E template_name \in ApplyNames, parameters \in SuppliedParameters :
        /\ op' = [name |-> "apply_template", arg |-> template_name,
                  parameters |-> parameters, before |-> pipeline_json]
        /\ ret' = [status |-> "returned",
                   value |-> apply_template(template_name, parameters).value]
        /\ pipeline_json' = apply_template(template_name, parameters).pipeline_json
        /\ UNCHANGED <<predefined, user, call, out, service, cwd>>

ApplyNext == CreatePlaceholderTemplate \/ ApplyTemplate

SpecApply == ApplyInit /\ [][ApplyNext]_vars

(***************************************************************************)
(* SpecStore: the store with documents that came from outside (shipped or  *)
(* edited by hand, some of them malformed), listed and looked up, and with *)
(* the two writes of create_template and _import_single_template as        *)
(* separate steps, between which the process can stop.                     *)
(***************************************************************************)
StoreNames == {"A", "B"}

StoreCatalog == {args \in Catalog : args.description # "malformed"}

\* The schema document of a well-formed stored template.
StoredSchema(name, version) ==
    to_dict(TemplateSchema(name, version, "stored", TemplateCategoryOf("api"), "vendor",
                           <<>>, <<>>, PyNone, PyNone))

StoredConfig == "b" :> PyList(<<PyInt(2)>>)

\* Template directories list_templates cannot load: a schema document that
\* does not parse, lacks a required field, names an unknown category or an
\* unknown parameter kind, a config document that does not parse, and a
\* directory holding only one of the two documents.
BadDirectories ==
    LET schema == StoredSchema("C", "1.0.0")
        without_author == [k \in (DOMAIN schema) \ {"author"} |-> schema[k]]
    IN  {("template.json" :> Unparseable) @@ ("config.json" :> StoredConfig),
         ("template.json" :> without_author) @@ ("config.json" :> StoredConfig),
         ("template.json" :> [schema EXCEPT !.category = "games"])
             @@ ("config.json" :> StoredConfig),
         ("template.json" :>
             [schema EXCEPT !.parameters =
                 <<[name |-> "p", type |-> "float", description |-> "d"]>>])
             @@ ("config.json" :> StoredConfig),
         ("template.json" :> schema) @@ ("config.json" :> Unparseable),
         ("template.json" :> schema),
         ("config.json" :> StoredConfig)}

GoodDirectory(name, version) ==
    ("template.json" :> StoredSchema(name, version)) @@ ("config.json" :> StoredConfig)

StoreInit ==
    /\ predefined \in {<<>>,
                       "A" :> GoodDirectory("A", "2.0.0"),
                       ("A" :> GoodDirectory("A", "2.0.0"))
                           @@ ("C" :> (("template.json" :> Unparseable)
                                       @@ ("config.json" :> StoredConfig)))}
    /\ user \in {<<>>} \cup {"C" :> bad : bad \in BadDirectories}
    /\ op = NoOp
    /\ ret = Pending
    /\ call = NoCall
    /\ out = Pending
    /\ pipeline_json = Nothing
    /\ service = NoService
    /\ cwd = <<>>

\* An operation has written template.json and not yet config.json.
Writing == "at" \in DOMAIN op /\ op.at = "schema_written"

\* The user tier after mkdir(exist_ok=True) and the write of template.json.
SchemaWritten(name, schema) ==
    Put(user, name,
        Put(IF name \in DOMAIN user THEN user[name] ELSE <<>>, "template.json", to_dict(schema)))

\* create_template up to the end of its first write (template.json).
CreateWriteSchema ==
    \E name \in StoreNames, args \in StoreCatalog :
        LET schema_data ==
                [name |-> name, version |-> "1.0.0", description |-> args.description,
                 category |-> args.category.value, author |-> args.author,
                 tags |-> OrEmptyList(args.tags),
                 parameters |-> OrEmptyList(args.parameters), extends |-> PyNone]
            schema == from_dict(schema_data)
        IN  /\ ~Writing
            /\ ~FromDictRaises(schema_data)
            /\ op' = [name |-> "create_template", arg |-> name, at |-> "schema_written",
                      schema |-> schema, config |-> args.config,
                      existed |-> name \in DOMAIN user
                                  /\ ~IsNothing(load_template(user, "user", name))]
            /\ ret' = Pending
            /\ user' = SchemaWritten(name, schema)
            /\ UNCHANGED <<predefined, call, out, pipeline_json, service, cwd>>

\* import_template on a combined document, up to the end of the first write
\* of _import_single_template.
ImportWriteSchema ==
    \E template_file \in ImportSources :
        /\ ~Writing
        /\ template_file.kind = "file" /\ template_file.suffix = ".json"
        /\ {"schema", "config"} \subseteq DOMAIN template_file.data
        /\ ~FromDictRaises(template_file.data.schema)
        /\ LET schema == from_dict(template_file.data.schema)
           IN  /\ op' = [name |-> "import_template", arg |-> schema.name,
                         at |-> "schema_written",
                         schema |-> schema, config |-> template_file.data.config,
                         existed |-> schema.name \in DOMAIN user
                                     /\ ~IsNothing(load_template(user, "user", schema.name))]
               /\ ret' = Pending
               /\ user' = SchemaWritten(schema.name, schema)
        /\ UNCHANGED <<predefined, call, out, pipeline_json, service, cwd>>

\* The second write (config.json) and the return of the Template.
WriteConfig ==
    /\ Writing
    /\ op' = [op EXCEPT !.at = "done"]
    /\ user' = Put(user, op.arg, Put(user[op.arg], "config.json", op.config))
    /\ ret' = [status |-> "returned",
               value |-> Some(Template(op.schema, op.config, <<"user", op.arg>>))]
    /\ UNCHANGED <<predefined, call, out, pipeline_json, service, cwd>>

\* The process stops between the two writes; the files stay as they are.
Interrupt ==
    /\ Writing
    /\ op' = [op EXCEPT !.at = "interrupted"]
    /\ ret' = [status |-> "interrupted"]
    /\ UNCHANGED <<predefined, user, call, out, pipeline_json, service, cwd>>

\* import_template on a directory.
ImportDirectory ==
    \E template_file \in ImportSources :
        /\ ~Writing
        /\ template_file.kind = "dir"
        /\ op' = [name |-> "import_template", arg |-> template_file, at |-> "done"]
        /\ ret' = [status |-> "returned", value |-> import_template(template_file).value]
        /\ user' = import_template(template_file).user
        /\ UNCHANGED <<predefined, call, out, pipeline_json, service, cwd>>

StoreDelete == ~Writing /\ DeleteTemplate

\* TemplateManager.list_templates
ListTemplates ==
    \E category \in {PyNone, TemplateCategoryOf("api"), TemplateCategoryOf("custom")} :
        /\ ~Writing
        /\ op' = [name |-> "list_templates", arg |-> category, at |-> "done"]
        /\ ret' = [status |-> "returned", value |-> list_templates(category),
                   console |-> list_templates_console]
        /\ UNCHANGED <<predefined, user, call, out, pipeline_json, service, cwd>>

Versions == {PyNone, PyStr("1.0.0"), PyStr("2.0.0")}

\* TemplateManager.get_template
GetTemplate ==
    \E template_name \in Names, version \in Versions :
        /\ ~Writing
        /\ op' = [name |-> "get_template", arg |-> template_name, version |-> version,
                  at |-> "done"]
        /\ ret' = [status |-> "returned", value |-> get_template(template_name, version)]
        /\ UNCHANGED <<predefined, user, call, out, pipeline_json, service, cwd>>

StoreNext ==
    \/ CreateWriteSchema
    \/ ImportWriteSchema
    \/ WriteConfig
    \/ Interrupt
    \/ ImportDirectory
    \/ StoreDelete
    \/ ListTemplates
    \/ GetTemplate

SpecStore == StoreInit /\ [][StoreNext]_vars

(***************************************************************************)
(* notifications/notification_service.py and event_handlers.py.  The       *)
(* NotificationService object is the record service: channels (the names   *)
(* of the configured channels in the order _initialize_channels inserts    *)
(* them), notification_config, event_history, and now, the clock           *)
(* datetime.utcnow() reads.  What a channel's send does is the             *)
(* environment's choice: it returns True ("sent"), returns False           *)
(* ("failed") or raises ("raised").                                        *)
(***************************************************************************)
NotificationEventTypeOf(value) == Member("NotificationEventType", value)
NotificationPriorityOf(value) == Member("NotificationPriority", value)

PIPELINE_STARTED == NotificationEventTypeOf("pipeline_started")
PIPELINE_SUCCESS == NotificationEventTypeOf("pipeline_success")
PIPELINE_FAILED == NotificationEventTypeOf("pipeline_failed")
PIPELINE_RECOVERED == NotificationEventTypeOf("pipeline_recovered")
BUILD_FAILED == NotificationEventTypeOf("build_failed")
DEPLOYMENT_FAILED == NotificationEventTypeOf("deployment_failed")

\* The length event_history is cut back to.
HistoryLimit == 50

\* NotificationService.__init__ with load_configuration and
\* _initialize_channels, for a config whose "notifications" section is
\* notification_config.
NotificationService(notification_config) ==
    LET enabled(name) == /\ name \in DOMAIN notification_config
                         /\ Get(notification_config[name], "enabled", FALSE)
    IN  [constructed |-> TRUE,
         channels |-> (IF enabled("slack") THEN <<"slack">> ELSE <<>>)
                      \o (IF enabled("email") THEN <<"email">> ELSE <<>>)
                      \o (IF enabled("webhooks") THEN <<"webhook">> ELSE <<>>),
         notification_config |-> notification_config,
         event_history |-> <<>>,
         now |-> 0]

\* NotificationService._is_quiet_hours
is_quiet_hours(quiet_config) ==
    IF ~Get(quiet_config, "enabled", FALSE) THEN FALSE ELSE FALSE

\* NotificationService._is_recovery
is_recovery(self) ==
    IF Len(self.event_history) < 2 THEN FALSE
    ELSE self.event_history[Len(self.event_history)].type
            \in {PIPELINE_FAILED.value, BUILD_FAILED.value, DEPLOYMENT_FAILED.value}

default_rules ==
    [notify_on_success |-> FALSE, notify_on_failure |-> TRUE, notify_on_recovery |-> TRUE,
     quiet_hours |-> [enabled |-> FALSE, start |-> "22:00", end |-> "08:00",
                      timezone |-> "UTC"]]

\* {**default_rules, **rules}
MergedRules(rules) ==
    [k \in (DOMAIN default_rules) \cup (DOMAIN rules) |->
        IF k \in DOMAIN rules THEN rules[k] ELSE default_rules[k]]

\* NotificationService._should_notify
should_notify(self, event_type) ==
    LET rules == Get(self.notification_config, "rules", <<>>)
        effective_rules == MergedRules(rules)
    IN  IF /\ is_quiet_hours(Get(effective_rules, "quiet_hours", <<>>))
           /\ event_type \notin {PIPELINE_FAILED, DEPLOYMENT_FAILED}
        THEN FALSE
        ELSE IF event_type = PIPELINE_SUCCESS
        THEN IF is_recovery(self)
             THEN Get(effective_rules, "notify_on_recovery", TRUE)
             ELSE Get(effective_rules, "notify_on_success", FALSE)
        ELSE IF event_type \in {PIPELINE_FAILED, BUILD_FAILED, DEPLOYMENT_FAILED}
        THEN Get(effective_rules, "notify_on_failure", TRUE)
        ELSE IF event_type = PIPELINE_RECOVERED
        THEN Get(effective_rules, "notify_on_recovery", TRUE)
        ELSE Get(Get(effective_rules, "events", <<>>), event_type.value, TRUE)

\* self.event_history[-50:]
LastEvents(history, n) ==
    IF Len(history) > n THEN SubSeq(history, Len(history) - n + 1, Len(history)) ELSE history

\* A _record_event that keeps the first events and drops the new one once
\* the history is full.
record_event_keeping_oldest(self, event_type, context) ==
    LET event_record == [type |-> event_type.value, timestamp |-> self.now,
                         context |-> context]
        appended == Append(self.event_history, event_record)
    IN  [self EXCEPT !.event_history =
            IF Len(appended) > HistoryLimit THEN SubSeq(appended, 1, HistoryLimit)
            ELSE appended]

\* NotificationService._record_event
record_event(self, event_type, context) ==
    LET event_record == [type |-> event_type.value, timestamp |-> self.now,
                         context |-> context]
        appended == Append(self.event_history, event_record)
    IN  [self EXCEPT !.event_history =
            IF Len(appended) > HistoryLimit THEN LastEvents(appended, HistoryLimit)
            ELSE appended]

\* What awaiting a task of asyncio.gather(..., return_exceptions=True) gives:
\* the value the coroutine returned, or the exception it raised.
ReturnedValue(value) == [t |-> "bool", v |-> value]
IsException(result) == result.t = "Exception"

\* NotificationService._send_to_channel: the channel's answer, False where
\* the channel raised.
send_to_channel(outcome) ==
    IF outcome = "raised" THEN ReturnedValue(FALSE)
    ELSE ReturnedValue(outcome = "sent")

\* The tasks of send_notification: the targeted channels that are
\* configured, in the order of target_channels.
RECURSIVE Tasks(_, _)
Tasks(self, target_channels) ==
    IF target_channels = <<>> THEN <<>>
    ELSE (IF Head(target_channels) \in Range(self.channels)
          THEN <<Head(target_channels)>> ELSE <<>>)
         \o Tasks(self, Tail(target_channels))

\* NotificationService.send_notification; channels is PyNone or a list of
\* names, outcomes what each configured channel's send does.  Returns the
\* results, the service it leaves and the channels whose send was awaited.
send_notification(self, event_type, context, priority, channels, outcomes) ==
    IF ~should_notify(self, event_type)
    THEN [value |-> <<>>, service |-> self, tried |-> {}]
    ELSE LET recorded == record_event(self, event_type, context)
             target_channels == IF Truthy(channels) THEN channels.v ELSE self.channels
             tasks == Tasks(self, target_channels)
             task_results == [i \in 1..Len(tasks) |-> send_to_channel(outcomes[tasks[i]])]
         IN  [value |-> [channel_name \in Range(tasks) |->
                            LET i == CHOOSE i \in 1..Len(tasks) : tasks[i] = channel_name
                            IN  ~IsException(task_results[i])],
              service |-> recorded,
              tried |-> Range(tasks)]

\* PipelineEventHandler._enhance_context, for a context without start and
\* end times, region, job id and commit author and with a commit of at most
\* eight characters: it adds the timestamp.
enhance_context(self, context) ==
    IF "timestamp" \notin DOMAIN context THEN Put(context, "timestamp", self.now) ELSE context

\* PipelineEventHandler.handle_pipeline_event on the handler's service;
\* event_type and priority are the strings it is called with.
handle_pipeline_event(self, event_type, context, priority, outcomes) ==
    LET sent == send_notification(self, NotificationEventTypeOf(event_type),
                                  enhance_context(self, context),
                                  NotificationPriorityOf(priority), PyNone, outcomes)
        results == sent.value
    IN  [value |-> IF DOMAIN results # {}
                   THEN \E channel \in DOMAIN results : results[channel]
                   ELSE TRUE,
         results |-> results, service |-> sent.service, tried |-> sent.tried,
         event_type |-> event_type, priority |-> priority]

\* PipelineEventHandler.send_pipeline_success
send_pipeline_success(self, context, outcomes) ==
    IF is_recovery(self)
    THEN handle_pipeline_event(self, "pipeline_recovered", context, "high", outcomes)
    ELSE handle_pipeline_event(self, "pipeline_success", context, "normal", outcomes)

\* PipelineEventHandler.send_pipeline_failure
send_pipeline_failure(self, context, outcomes) ==
    handle_pipeline_event(self, "pipeline_failed", context, "high", outcomes)

(***************************************************************************)
(* SpecNotify: a NotificationService with its handler, sent any sequence   *)
(* of at most MaxEvents events.                                            *)
(***************************************************************************)
MaxEvents == 3

Outcomes == {"sent", "failed", "raised"}

\* The "notifications" section of .pipeline/config.json: two channels under
\* the default rules, no channel, and one channel under rules of the user's.
NotificationConfigs ==
    {[slack |-> [enabled |-> TRUE], email |-> [enabled |-> TRUE],
      webhooks |-> [enabled |-> FALSE]],
     [slack |-> [enabled |-> FALSE]],
     [email |-> [enabled |-> TRUE],
      rules |-> [notify_on_success |-> TRUE,
                 events |-> [pipeline_started |-> FALSE]]]}

EventTypes ==
    {PIPELINE_STARTED, PIPELINE_SUCCESS, PIPELINE_FAILED, PIPELINE_RECOVERED,
     BUILD_FAILED, DEPLOYMENT_FAILED}

EventContext == [project |-> "p", branch |-> "main", commit |-> "abc"]

\* The channels argument of send_notification: absent, or a list naming a
\* configured channel and one that is not configured.
TargetChoices == {PyNone, PyList(<<"email", "sms">>)}

NotifyInit ==
    /\ predefined = <<>>
    /\ user = <<>>
    /\ op = NoOp
    /\ ret = Pending
    /\ call = NoCall
    /\ out = Pending
    /\ pipeline_json = Nothing
    /\ service \in {NotificationService(notification_config) :
                       notification_config \in NotificationConfigs}
    /\ cwd = <<>>

\* The type of the last recorded event, "none" for an empty history.
LastRecorded(self) ==
    IF self.event_history = <<>> THEN "none"
    ELSE self.event_history[Len(self.event_history)].type

\* One call of send_notification, after which the clock has advanced.
SendNotification(event_type, channels, outcomes) ==
    LET sent == send_notification(service, event_type, EventContext,
                                  NotificationPriorityOf("normal"), channels, outcomes)
    IN  /\ op' = [name |-> "send_notification", event_type |-> event_type.value,
                  channels |-> channels, outcomes |-> outcomes,
                  previous |-> LastRecorded(service),
                  recorded_before |-> Len(service.event_history)]
        /\ ret' = [status |-> "returned", value |-> sent.value, tried |-> sent.tried]
        /\ service' = [sent.service EXCEPT !.now = @ + 1]
        /\ UNCHANGED <<predefined, user, call, out, pipeline_json, cwd>>

NotifySend ==
    \E event_type \in EventTypes, channels \in TargetChoices,
       outcomes \in [Range(service.channels) -> Outcomes] :
        /\ service.now < MaxEvents
        /\ SendNotification(event_type, channels, outcomes)

\* PipelineEventHandler.send_pipeline_success and send_pipeline_failure.
HandlerSend ==
    \E success \in BOOLEAN, outcomes \in [Range(service.channels) -> Outcomes] :
        LET handled == IF success
                       THEN send_pipeline_success(service, EventContext, outcomes)
                       ELSE send_pipeline_failure(service, EventContext, outcomes)
        IN  /\ service.now < MaxEvents
            /\ op' = [name |-> IF success THEN "send_pipeline_success"
                               ELSE "send_pipeline_failure",
                      event_type |-> handled.event_type, priority |-> handled.priority,
                      channels |-> PyNone, outcomes |-> outcomes,
                      previous |-> LastRecorded(service),
                      recorded_before |-> Len(service.event_history)]
            /\ ret' = [status |-> "returned", value |-> handled.value,
                       results |-> handled.results, tried |-> handled.tried]
            /\ service' = [handled.service EXCEPT !.now = @ + 1]
            /\ UNCHANGED <<predefined, user, call, out, pipeline_json, cwd>>

NotifyNext == NotifySend \/ HandlerSend

SpecNotify == NotifyInit /\ [][NotifyNext]_vars

(***************************************************************************)
(* SpecHistory: a NotificationService sent more events than its history    *)
(* holds: failures, and at the instants SuccessTimes a success instead.    *)
(***************************************************************************)
Overrun == 2

SuccessTimes == {1, 3, HistoryLimit, HistoryLimit + 1}

HistoryInit ==
    /\ predefined = <<>>
    /\ user = <<>>
    /\ op = NoOp
    /\ ret = Pending
    /\ call = NoCall
    /\ out = Pending
    /\ pipeline_json = Nothing
    /\ service = NotificationService([slack |-> [enabled |-> TRUE]])
    /\ cwd = <<>>

HistorySend ==
    \E event_type \in {PIPELINE_FAILED, PIPELINE_SUCCESS} :
        /\ service.now < HistoryLimit + Overrun
        /\ event_type = PIPELINE_SUCCESS => service.now \in SuccessTimes
        /\ SendNotification(event_type, PyNone, [channel \in Range(service.channels) |-> "sent"])

SpecHistory == HistoryInit /\ [][HistorySend]_vars

(***************************************************************************)
(* commands/init.py: init_command on the working directory cwd, a function *)
(* from the names of the files it holds to their content (TRUE for a file  *)
(* whose content is not read, the lines of .gitignore, the document of     *)
(* .pipeline/config.json).                                                 *)
(***************************************************************************)
CONFIG_JSON == ".pipeline/config.json"

\* get_default_config (the backquotes around date in the build commands are
\* left out: a string of this notation cannot hold them).
get_default_config ==
    [version |-> "1.0",
     project_name |-> "",
     aws_region |-> "us-east-1",
     environment |-> "dev",
     pipeline |->
        [type |-> "basic",
         build_spec |->
            [runtime |-> "python",
             version |-> "3.9",
             commands |->
                [pre_build |-> <<"echo Logging in to Amazon ECR...",
                                 "pip install -r requirements.txt">>,
                 build |-> <<"echo Build started on date",
                             "echo Running tests...",
                             "python -m pytest",
                             "echo Build completed on date">>,
                 post_build |-> <<"echo Build completed successfully">>]],
         artifacts |-> [files |-> <<"**/*">>]],
     deployment |-> [strategy |-> "rolling", auto_rollback |-> TRUE],
     notifications |->
        [slack |-> [enabled |-> FALSE, webhook_url |-> ""],
         email |-> [enabled |-> FALSE, addresses |-> <<>>]]]

\* validate_project_directory; continue_anyway is the user's answer to
\* "Continue anyway?".
validate_project_directory(dir, continue_anyway) ==
    LET common_files == {"package.json", "requirements.txt", "Dockerfile",
                         "README.md", ".git", "src", "app"}
        has_project_files == \E file \in common_files : file \in DOMAIN dir
    IN  IF ~has_project_files THEN continue_anyway ELSE TRUE

\* detect_project_type
detect_project_type(dir) ==
    IF "package.json" \in DOMAIN dir THEN "node"
    ELSE IF "requirements.txt" \in DOMAIN dir \/ "setup.py" \in DOMAIN dir THEN "python"
    ELSE IF "go.mod" \in DOMAIN dir THEN "go"
    ELSE IF "pom.xml" \in DOMAIN dir THEN "java"
    ELSE IF "Dockerfile" \in DOMAIN dir THEN "docker"
    ELSE "generic"

\* The .gitignore step of init_command: the entry is appended to an
\* existing .gitignore that does not hold it.
WithGitignoreEntry(dir) ==
    IF ".gitignore" \in DOMAIN dir /\ ".pipeline/" \notin Range(dir[".gitignore"])
    THEN Put(dir, ".gitignore", dir[".gitignore"] \o <<"", "# Pipeline Creator", ".pipeline/">>)
    ELSE dir

\* An init that takes no answer for a refusal and writes the configuration
\* whatever the user says to "Do you want to overwrite it?".
init_command_ignoring_answer(project_name, region, environment, force, answers) ==
    IF ~validate_project_directory(cwd, answers.continue_anyway)
    THEN [cwd |-> cwd, console |-> "Initialization cancelled."]
    ELSE LET detected_type == detect_project_type(cwd)
             name == IF project_name = "" THEN answers.project_name ELSE project_name
             config == [get_default_config EXCEPT
                           !.project_name = name, !.aws_region = region,
                           !.environment = environment,
                           !.pipeline = Put(@, "detected_type", detected_type)]
         IN  [cwd |-> WithGitignoreEntry(Put(cwd, CONFIG_JSON, config)),
              console |-> "Pipeline configuration initialized successfully!"]

\* init_command(project_name, region, environment, force); answers are what
\* the user types at its prompts: continue_anyway, overwrite, project_name.
\* An option -n that is not given is the empty name.  Returns the working
\* directory it leaves and the last line it prints.
init_command(project_name, region, environment, force, answers) ==
    IF ~validate_project_directory(cwd, answers.continue_anyway)
    THEN [cwd |-> cwd, console |-> "Initialization cancelled."]
    ELSE IF CONFIG_JSON \in DOMAIN cwd /\ ~force /\ ~answers.overwrite
    THEN [cwd |-> cwd, console |-> "Use --force flag to overwrite without confirmation."]
    ELSE LET detected_type == detect_project_type(cwd)
             name == IF project_name = "" THEN answers.project_name ELSE project_name
             config == [get_default_config EXCEPT
                           !.project_name = name, !.aws_region = region,
                           !.environment = environment,
                           !.pipeline = Put(@, "detected_type", detected_type)]
         IN  [cwd |-> WithGitignoreEntry(Put(cwd, CONFIG_JSON, config)),
              console |-> "Pipeline configuration initialized successfully!"]

(***************************************************************************)
(* SpecInit: init run again and again in a working directory.              *)
(***************************************************************************)
\* The files found in the working directory beside the configuration.
ProjectFiles ==
    {<<>>,
     "README.md" :> TRUE,
     "requirements.txt" :> TRUE,
     ("package.json" :> TRUE) @@ ("requirements.txt" :> TRUE),
     ".gitignore" :> <<"*.pyc">>,
     ("package.json" :> TRUE) @@ (".gitignore" :> <<"*.pyc">>),
     ("requirements.txt" :> TRUE) @@ (".gitignore" :> <<".pipeline/">>)}

\* A configuration written by hand or by an earlier version.
OldConfig == [version |-> "0.5", project_name |-> "existing-project"]

ProjectNames == {"", "new-project"}
Regions == {"us-east-1", "us-west-2"}
Environments == {"dev", "prod"}

Answers ==
    [continue_anyway : BOOLEAN, overwrite : BOOLEAN, project_name : {"workdir", "typed"}]

InitCommandInit ==
    /\ predefined = <<>>
    /\ user = <<>>
    /\ op = NoOp
    /\ ret = Pending
    /\ call = NoCall
    /\ out = Pending
    /\ pipeline_json = Nothing
    /\ service = NoService
    /\ cwd \in ProjectFiles \cup {files @@ (CONFIG_JSON :> OldConfig) : files \in ProjectFiles}

InitCommand ==
    \E project_name \in ProjectNames, region \in Regions, environment \in Environments,
       force \in BOOLEAN, answers \in Answers :
        LET result == init_command(project_name, region, environment, force, answers)
        IN  /\ op' = [name |-> "init", project_name |-> project_name, region |-> region,
                      environment |-> environment, force |-> force, answers |-> answers,
                      before |-> cwd]
            /\ ret' = [status |-> "returned", console |-> result.console]
            /\ cwd' = result.cwd
            /\ UNCHANGED <<predefined, user, call, out, pipeline_json, service>>

SpecInit == InitCommandInit /\ [][InitCommand]_vars

(***************************************************************************)
(* Properties of the pure functions, checked under SpecPure.               *)
(***************************************************************************)
MergeConfigsDone == call.fn = "merge_configs" /\ out.done
MergeSchemasDone == call.fn = "merge_schemas" /\ out.done
ValidateDone == call.fn = "validate" /\ out.done

\* The merge rule, key by key, down every level of nesting.
RECURSIVE MergedByRule(_, _, _)
MergedByRule(base, child, result) ==
    /\ DOMAIN result = (DOMAIN base) \cup (DOMAIN child)
    /\ \A key \in DOMAIN result :
        IF key \in DOMAIN base /\ key \in DOMAIN child
        THEN IF base[key].t = "dict" /\ child[key].t = "dict"
             THEN /\ result[key].t = "dict"
                  /\ MergedByRule(base[key].v, child[key].v, result[key].v)
             ELSE IF base[key].t = "list" /\ child[key].t = "list"
             THEN /\ result[key].t = "list"
                  /\ Len(result[key].v) = Len(base[key].v) + Len(child[key].v)
                  /\ \A i \in 1..Len(base[key].v) : result[key].v[i] = base[key].v[i]
                  /\ \A i \in 1..Len(child[key].v) :
                         result[key].v[Len(base[key].v) + i] = child[key].v[i]
             ELSE result[key] = child[key]
        ELSE IF key \in DOMAIN child THEN result[key] = child[key]
        ELSE result[key] = base[key]

\* C3: the deep merge of a base and a child config body holds, for every
\* key, the recursive merge when both sides hold a mapping, the base's
\* elements followed by the child's when both hold a sequence, the child's
\* value when the child has the key otherwise, and the base's value when
\* only the base has it; the documented example merges as documented.
C3_DeepMergeRule ==
    MergeConfigsDone =>
        /\ MergedByRule(call.base_config, call.child_config, out.value)
        /\ (call.base_config = ExampleBase /\ call.child_config = ExampleChild
               => out.value = ExampleMerged)

\* The documented example has been merged.
C3_Witness ==
    /\ MergeConfigsDone
    /\ call.base_config = ExampleBase
    /\ call.child_config = ExampleChild
    /\ out.value["b"].v = <<PyInt(1), PyInt(2), PyInt(3)>>
    /\ DOMAIN out.value["a"].v = {"x", "y"}

ParameterNames(schema) == {schema.parameters[i].name : i \in 1..Len(schema.parameters)}

NoRepeats(s) == \A i, j \in 1..Len(s) : i # j => s[i] # s[j]

\* C5: a merged schema's parameter names are pairwise distinct and are the
\* union of both sides' names, a name the child declares carries a
\* ParameterSpec of the child, the identity fields and extends are the
\* child's, and tags and requirements are the set unions of both sides.
C5_MergedSchema ==
    MergeSchemasDone =>
        LET base == call.base_schema
            child == call.child_schema
            merged == out.value
        IN  /\ \A i, j \in 1..Len(merged.parameters) :
                   i # j => merged.parameters[i].name # merged.parameters[j].name
            /\ ParameterNames(merged) = ParameterNames(base) \cup ParameterNames(child)
            /\ \A i \in 1..Len(merged.parameters) :
                   merged.parameters[i].name \in ParameterNames(child)
                       => merged.parameters[i] \in Range(child.parameters)
            /\ merged.name = child.name
            /\ merged.version = child.version
            /\ merged.description = child.description
            /\ merged.category = child.category
            /\ merged.author = child.author
            /\ merged.extends = child.extends
            /\ Range(merged.tags) = Range(base.tags) \cup Range(child.tags)
            /\ NoRepeats(merged.tags)
            /\ merged.requirements.t = "list"
            /\ Range(merged.requirements.v) =
                   Range(OrEmptyList(base.requirements))
                   \cup Range(OrEmptyList(child.requirements))
            /\ NoRepeats(merged.requirements.v)

\* Two schemas that declare the same name with different ParameterSpecs and
\* share a tag have been merged, and the merge kept a name of the base.
C5_Witness ==
    /\ MergeSchemasDone
    /\ \E i \in 1..Len(call.base_schema.parameters) :
       \E j \in 1..Len(call.child_schema.parameters) :
           /\ call.base_schema.parameters[i].name = call.child_schema.parameters[j].name
           /\ call.base_schema.parameters[i] # call.child_schema.parameters[j]
    /\ ParameterNames(call.base_schema) \ ParameterNames(call.child_schema) # {}
    /\ Range(call.base_schema.tags) \cap Range(call.child_schema.tags) # {}
    /\ call.base_schema.name # call.child_schema.name
    /\ Len(out.value.parameters) = 2

\* The kind a value has for the claim: a boolean is no integer.
OfKind(value, type) ==
    CASE type = ParameterType_STRING -> value.t = "str"
      [] type = ParameterType_INTEGER -> value.t = "int"
      [] type = ParameterType_BOOLEAN -> value.t = "bool"
      [] type = ParameterType_ARRAY -> value.t = "list"
      [] type = ParameterType_OBJECT -> value.t = "dict"
      [] OTHER -> TRUE

\* C9: a non-null value that validates is of the parameter's kind, lies
\* within min_value..max_value of an integer parameter, and is one of the
\* options of a select parameter.
C9_ValidateAcceptsOnlyKind ==
    (ValidateDone /\ call.value.t # "NoneType" /\ out.value.ok) =>
        LET p == call.self
            value == call.value
        IN  /\ OfKind(value, p.type)
            /\ (p.type = ParameterType_INTEGER /\ p.min_value.t # "NoneType"
                   => NumVal(p.min_value) <= NumVal(value))
            /\ (p.type = ParameterType_INTEGER /\ p.max_value.t # "NoneType"
                   => NumVal(value) <= NumVal(p.max_value))
            /\ (p.type = ParameterType_SELECT
                   => \E i \in 1..Len(OrEmptyList(p.options)) : p.options.v[i] = value)

\* C10: an absent value fails, with the 'is required' error, exactly when
\* the parameter is required and declares no default.
C10_RequiredOnlyWithoutDefault ==
    (ValidateDone /\ call.value.t = "NoneType") =>
        /\ ~out.value.ok <=> (call.self.required /\ call.self.default.t = "NoneType")
        /\ ~out.value.ok => out.value.error[1] = "is required"

ValidateParametersDone == call.fn = "validate_parameters" /\ out.done
FromDictDone == call.fn = "from_dict" /\ out.done

\* The declared parameters, by position, that fail against the call's values.
Failing ==
    {i \in 1..Len(call.self.parameters) :
        ~validate(call.self.parameters[i],
                  Get(call.values, call.self.parameters[i].name, PyNone)).ok}

\* The k-th smallest element of a set of positions.
Nth(S, k) == CHOOSE i \in S : Cardinality({j \in S : j < i}) = k - 1

\* C11: validate_parameters returns one error for each declared parameter
\* that fails its own validation against values.get(name), in declaration
\* order and whether or not an earlier parameter failed, and ok exactly when
\* none fails.
C11_NoShortCircuit ==
    ValidateParametersDone =>
        /\ Len(out.value.errors) = Cardinality(Failing)
        /\ out.value.ok <=> Failing = {}
        /\ \A k \in 1..Len(out.value.errors) :
               LET param == call.self.parameters[Nth(Failing, k)]
               IN  /\ out.value.errors[k][2] = param.name
                   /\ out.value.errors[k] =
                          validate(param, Get(call.values, param.name, PyNone)).error

\* Two of the declared parameters fail, for different reasons, and a third
\* passes.
C11_Witness ==
    /\ ValidateParametersDone
    /\ Len(call.self.parameters) = MaxParams
    /\ Cardinality(Failing) = 2
    /\ Len(out.value.errors) = 2
    /\ out.value.errors[1][1] # out.value.errors[2][1]
    /\ ~out.value.ok

\* C12: from_dict(s.to_dict()) returns a schema equal to s in every field,
\* absent extends and requirements, empty tags and absent optional parameter
\* fields included.
C12_RoundTrip ==
    FromDictDone =>
        /\ out.value.status = "returned"
        /\ out.value.value = call.self
        /\ \A field \in DOMAIN call.self : out.value.value[field] = call.self[field]

\* A schema without extends, requirements and tags, whose parameter is not
\* required and leaves every optional field absent, has made the round trip.
C12_Witness ==
    /\ FromDictDone
    /\ call.self.extends = PyNone
    /\ call.self.requirements = PyNone
    /\ call.self.tags = <<>>
    /\ Len(call.self.parameters) = 1
    /\ LET p == call.self.parameters[1]
       IN  /\ ~p.required
           /\ p.default = PyNone /\ p.options = PyNone /\ p.min_value = PyNone
           /\ p.max_value = PyNone /\ p.pattern = PyNone
    /\ out.value.status = "returned"
    /\ out.value.value.parameters[1].type = call.self.parameters[1].type

ApplyParametersDone == call.fn = "apply_parameters" /\ out.done

\* The declared parameters of the call's template, and the names the caller
\* supplied.
Declared == call.self.schema.parameters
SuppliedNames == {call.parameters[i][1] : i \in 1..Len(call.parameters)}
SuppliedValue(name) ==
    call.parameters[CHOOSE i \in 1..Len(call.parameters) : call.parameters[i][1] = name][2]

\* The keys of the config body whose value is the placeholder of the name
\* and nothing else.
WholeTokenKeys(name) ==
    {key \in DOMAIN call.self.config : call.self.config[key] = PyStr(Placeholder(name))}

\* C15: with no parameters supplied, a template whose parameters all
\* declare a default applies, and each placeholder that is a whole value is
\* replaced by its parameter's default; a value the caller supplies for a
\* name takes the place of the default.
C15_DefaultLayering ==
    ApplyParametersDone =>
        /\ (call.parameters = <<>> /\ \A i \in 1..Len(Declared) : Declared[i].default # PyNone)
               => /\ out.value.status = "returned"
                  /\ \A i \in 1..Len(Declared) :
                     \A key \in WholeTokenKeys(Declared[i].name) :
                         out.value.value.v[key] = Declared[i].default
        /\ out.value.status = "returned"
               => \A name \in SuppliedNames : \A key \in WholeTokenKeys(name) :
                      out.value.value.v[key] = SuppliedValue(name)

\* The names that have an effective value: a supplied one or a default.
EffectiveNames ==
    SuppliedNames \cup {Declared[i].name : i \in {j \in 1..Len(Declared) :
                                                     Declared[j].default # PyNone}}

\* The token occurs in a string of the value, alone or inside it, at any
\* depth.
RECURSIVE ContainsToken(_, _)
ContainsToken(value, token) ==
    CASE value.t = "str" -> token \in Range(Atoms(value.v))
      [] value.t = "list" -> \E i \in 1..Len(value.v) : ContainsToken(value.v[i], token)
      [] value.t = "dict" ->
            \E key \in DOMAIN value.v :
                token \in Range(Atoms(key)) \/ ContainsToken(value.v[key], token)
      [] OTHER -> FALSE

\* C16: in the config body a successful apply_parameters returns, no
\* placeholder of a name that has an effective value is left, neither as a
\* whole string nor inside a longer one.
C16_NoPlaceholderLeft ==
    (ApplyParametersDone /\ out.value.status = "returned") =>
        \A name \in EffectiveNames : ~ContainsToken(out.value.value, Placeholder(name))

(***************************************************************************)
(* Properties of the composer, checked under Spec.  The extends graph is   *)
(* read off the store here, apart from the composer's own walk.            *)
(***************************************************************************)
Stored(name) == ~IsNothing(get_template(name, PyNone))

StoredTemplate(name) == The(get_template(name, PyNone))

\* The base a stored template names, if it names one.
ExtendsOf(name) ==
    IF Stored(name) /\ Truthy(StoredTemplate(name).schema.extends)
    THEN {StoredTemplate(name).schema.extends.v}
    ELSE {}

RECURSIVE ReachableIn(_, _)
ReachableIn(S, k) ==
    IF k = 0 THEN S ELSE ReachableIn(S \cup UNION {ExtendsOf(n) : n \in S}, k - 1)

\* name and every template name its extends references lead to.
Ancestry(name) == ReachableIn({name}, Cardinality(Names))

\* Some name of the ancestry leads back to itself.
CycleReachable(name) ==
    \E m \in Ancestry(name) : m \in ReachableIn(ExtendsOf(m), Cardinality(Names))

HasRepetition(chain) == Len(chain) # Cardinality(Range(chain))

\* C1: when the extends references reachable from a template form a cycle,
\* validate_inheritance returns (False, errors) and errors hold a
\* circular-inheritance error.
C1_CycleReported ==
    (op.name = "validate_inheritance" /\ CycleReachable(op.arg)) =>
        /\ ~ret.value.ok
        /\ \E i \in 1..Len(ret.value.errors) :
               ret.value.errors[i][1] = "Circular inheritance detected"

\* C2: resolve_template terminates on every extends graph, cyclic ones
\* included, by returning a Template.
C2_ResolveReturnsTemplate ==
    op.name = "resolve_template" => ret.status = "returned"

\* The acyclic chain of a template whose bases all exist, child first.
RECURSIVE PathFrom(_)
PathFrom(name) ==
    IF ExtendsOf(name) = {} THEN <<name>>
    ELSE <<name>> \o PathFrom(CHOOSE base \in ExtendsOf(name) : TRUE)

\* The configs of path[1..i] merged into acc, the nearest ancestor first.
RECURSIVE MergeDown(_, _, _)
MergeDown(acc, path, i) ==
    IF i = 0 THEN acc
    ELSE MergeDown(deep_merge(acc, StoredTemplate(path[i]).config), path, i - 1)

FullChain(name) == ~CycleReachable(name) /\ \A m \in Ancestry(name) : Stored(m)

\* C4: on an acyclic chain whose bases all exist, resolve_template returns
\* the configs merged root first (for C extends B extends A,
\* deep_merge(deep_merge(A, B), C)), and what the template itself sets to a
\* scalar wins over every ancestor.
C4_ChainFlattened ==
    (op.name = "resolve_template" /\ FullChain(op.arg)) =>
        LET path == PathFrom(op.arg)
            root == StoredTemplate(path[Len(path)]).config
            own == StoredTemplate(op.arg).config
        IN  /\ ret.status = "returned"
            /\ ret.template.config = MergeDown(root, path, Len(path) - 1)
            /\ Len(path) = 3 =>
                   ret.template.config =
                       deep_merge(deep_merge(root, StoredTemplate(path[2]).config), own)
            /\ \A key \in DOMAIN own :
                   own[key].t \notin {"dict", "list"} => ret.template.config[key] = own[key]

\* A chain of three stored templates with two different configs has been
\* resolved.
C4_Witness ==
    /\ op.name = "resolve_template"
    /\ FullChain(op.arg)
    /\ Len(PathFrom(op.arg)) = 3
    /\ StoredTemplate(PathFrom(op.arg)[2]).config # StoredTemplate(op.arg).config
    /\ StoredTemplate(PathFrom(op.arg)[3]).config # StoredTemplate(PathFrom(op.arg)[2]).config
    /\ ret.status = "returned"

\* C6: resolve_template returns its argument unchanged when extends is
\* unset, and when extends names a template the store cannot find; the
\* latter prints an error and raises nothing.
C6_DegenerateUnchanged ==
    op.name = "resolve_template" =>
        LET template == StoredTemplate(op.arg)
        IN  /\ ~Truthy(template.schema.extends) =>
                   /\ ret.status = "returned"
                   /\ ret.template = template
                   /\ ret.console = <<>>
            /\ (Truthy(template.schema.extends) /\ ~Stored(template.schema.extends.v)) =>
                   /\ ret.status = "returned"
                   /\ ret.template = template
                   /\ ret.console = <<<<"Base template not found", template.schema.extends.v>>>>

\* A template whose base is not in the store has been resolved.
C6_Witness ==
    /\ op.name = "resolve_template"
    /\ Truthy(StoredTemplate(op.arg).schema.extends)
    /\ ~Stored(StoredTemplate(op.arg).schema.extends.v)
    /\ ret.status = "returned"
    /\ ret.template.schema.extends.t = "str"

\* C7: validate_inheritance returns (False, errors) with an error naming
\* the template whenever a template of the chain is not in the store, and
\* (True, []) exactly when the chain is acyclic and all its templates exist.
C7_ValidateInheritance ==
    op.name = "validate_inheritance" =>
        /\ \A m \in Ancestry(op.arg) :
               ~Stored(m) =>
                   /\ ~ret.value.ok
                   /\ \E i \in 1..Len(ret.value.errors) :
                          ret.value.errors[i] = <<"not found in inheritance chain", m>>
        /\ (ret.value.ok /\ ret.value.errors = <<>>) <=> FullChain(op.arg)

\* C8: get_inheritance_chain returns a list that starts with the name, each
\* next element the extends of the one before, that stops at the root or
\* at the first repetition, and that shows a repetition exactly when the
\* chain is cyclic, which is how a caller tells.
C8_ChainFlagsRepetition ==
    op.name = "get_inheritance_chain" =>
        LET chain == ret.value
        IN  /\ Len(chain) >= 1
            /\ chain[1] = op.arg
            /\ \A i \in 1..(Len(chain) - 1) : ExtendsOf(chain[i]) = {chain[i + 1]}
            /\ \/ ExtendsOf(chain[Len(chain)]) = {}
               \/ ExtendsOf(chain[Len(chain)]) \subseteq Range(chain)
            /\ HasRepetition(chain) <=> CycleReachable(op.arg)

(***************************************************************************)
(* Properties of the store, checked under Spec.  A step is told by the     *)
(* operation the next state records; the state before it is the unprimed   *)
(* one.                                                                    *)
(***************************************************************************)
\* The user tier `tier` holds a template under the name: a directory that
\* loads.
UserTemplateIn(tier, name) ==
    /\ name \in DOMAIN tier
    /\ ~IsNothing(load_template(tier, "user", name))

\* C19: create_template on a name whose user-tier directory exists fails
\* and leaves the directory's documents as they were; it returns a Template
\* only when no such directory existed, and then both documents are written.
C19_CreateFailsOnExisting ==
    [][op'.name = "create_template" =>
          /\ op'.arg \in DOMAIN user => (ret'.status # "returned" /\ user' = user)
          /\ ret'.status = "returned" =>
                 /\ op'.arg \notin DOMAIN user
                 /\ {"template.json", "config.json"} \subseteq DOMAIN user'[op'.arg]]_vars

\* C20: no operation changes the predefined tier; delete_template returns
\* True exactly when the user tier holds a template of that name, whatever
\* the predefined tier holds, leaves the user tier without a template of
\* that name and every other directory as it was.
C20_DeleteOnlyUserTier ==
    [][/\ predefined' = predefined
       /\ op'.name = "delete_template" =>
              /\ ret'.value <=> UserTemplateIn(user, op'.arg)
              /\ ~UserTemplateIn(user', op'.arg)
              /\ \A name \in (DOMAIN user) \ {op'.arg} :
                     name \in DOMAIN user' /\ user'[name] = user[name]]_vars

(***************************************************************************)
(* Properties of apply_template, checked under SpecApply.  The store is    *)
(* as the call found it, since apply_template writes nothing there.        *)
(***************************************************************************)
Applied == op.name = "apply_template"

\* parameters or {}
Supplied == IF IsNothing(op.parameters) THEN <<>> ELSE The(op.parameters)

\* The supplied parameters pass the validation of the applied template's own
\* schema.
SuppliedValid ==
    validate_parameters(StoredTemplate(op.arg).schema, ItemsToDict(Supplied)).ok

\* C13: an apply_template that does not find the template, or whose
\* parameters fail the schema's validation, returns False and leaves
\* pipeline.json as it found it, absent if it was absent; pipeline.json
\* differs from what the call found only if the call returned True.
C13_NoPartialApplication ==
    Applied =>
        /\ (~Stored(op.arg) \/ ~SuppliedValid) => (~ret.value /\ pipeline_json = op.before)
        /\ pipeline_json # op.before => ret.value

\* A template was found, the parameters failed its validation, and the
\* document the project had is still there.
C13_Witness ==
    /\ Applied
    /\ Stored(op.arg)
    /\ ~SuppliedValid
    /\ ~ret.value
    /\ op.before = Some(ExistingDocument)
    /\ pipeline_json = Some(ExistingDocument)

\* C14: applying a template that extends a stored base validates the
\* parameters against the merged schema and writes a document that holds
\* every config key only the base contributes.
C14_AppliesResolvedTemplate ==
    (Applied /\ Stored(op.arg) /\ ExtendsOf(op.arg) # {}
        /\ (\A base \in ExtendsOf(op.arg) : Stored(base)) /\ ret.value) =>
        \A base \in ExtendsOf(op.arg), seed \in Seeds :
            /\ validate_parameters(merge_schemas(StoredTemplate(base).schema,
                                                 StoredTemplate(op.arg).schema, seed),
                                   ItemsToDict(Supplied)).ok
            /\ \A key \in (DOMAIN StoredTemplate(base).config)
                           \ (DOMAIN StoredTemplate(op.arg).config) :
                   key \in DOMAIN The(pipeline_json)

\* A document without its 'template' block.
WithoutMetadata(document) ==
    [key \in (DOMAIN document) \ {"template"} |-> document[key]]

\* The config body the applied template gives with the supplied parameters.
SubstitutedConfig == apply_parameters(StoredTemplate(op.arg), Supplied).value.v

\* C17: applied to a project that has a pipeline.json, apply_template
\* writes the deep merge of that document and the substituted config:
\* mappings on both sides merged recursively, sequences on both sides
\* concatenated with the existing elements first, the template's value
\* otherwise, and the keys only the existing document has kept.
C17_MergesByDeepMergeRule ==
    (Applied /\ ret.value /\ ~IsNothing(op.before)) =>
        MergedByRule(WithoutMetadata(The(op.before)), WithoutMetadata(SubstitutedConfig),
                     WithoutMetadata(The(pipeline_json)))

\* C18: a successful apply_template on a project without pipeline.json
\* writes the substituted config body and a 'template' block of exactly
\* name, version, applied_at and parameters, holding the applied template's
\* name and version and the parameters the caller supplied; template T1
\* with body {"runtime": "{{ lang }}"} and parameters {lang: python} gives
\* runtime = "python" and template.name = "T1".
C18_PersistsWithProvenance ==
    (Applied /\ ret.value /\ IsNothing(op.before)) =>
        LET document == The(pipeline_json)
        IN  /\ DOMAIN document = (DOMAIN SubstitutedConfig) \cup {"template"}
            /\ \A key \in (DOMAIN SubstitutedConfig) \ {"template"} :
                   document[key] = SubstitutedConfig[key]
            /\ document["template"].t = "dict"
            /\ DOMAIN document["template"].v = {"name", "version", "applied_at", "parameters"}
            /\ document["template"].v["name"] = PyStr(op.arg)
            /\ document["template"].v["version"] = PyStr(StoredTemplate(op.arg).schema.version)
            /\ document["template"].v["applied_at"] = PyNone
            /\ document["template"].v["parameters"] = PyDict(ItemsToDict(Supplied))
            /\ (StoredTemplate(op.arg).config = RuntimeBody
                    /\ Supplied = <<<<"lang", PyStr("python")>>>>)
                   => /\ document["runtime"] = PyStr("python")
                      /\ document["template"].v["name"] = PyStr("T1")

\* The documented scenario: T1 applied with lang = python to a project
\* without pipeline.json.
C18_Witness ==
    /\ Applied
    /\ op.arg = "T1"
    /\ IsNothing(op.before)
    /\ Supplied = <<<<"lang", PyStr("python")>>>>
    /\ ret.value
    /\ ~IsNothing(pipeline_json)
    /\ DOMAIN The(pipeline_json) = {"runtime", "template"}
    /\ The(pipeline_json)["runtime"] = PyStr("python")
    /\ The(pipeline_json)["template"].v["name"] = PyStr("T1")

(***************************************************************************)
(* Import.                                                                 *)
(***************************************************************************)
ImportDone == op.name = "import_template"

\* The two documents an import source holds.
SourceDocuments(template_file) ==
    IF template_file.kind = "file"
    THEN [schema |-> template_file.data.schema, config |-> template_file.data.config]
    ELSE [schema |-> template_file.files["template.json"],
          config |-> template_file.files["config.json"]]

\* The user templates named name, as list_templates loads them.
UserTemplatesNamed(name) ==
    LET templates == load_templates_from_dir(user, "user")
    IN  {i \in 1..Len(templates) : templates[i].schema.name = name}

\* C21: after a successful import of a template named N, from a combined
\* document or from a directory, the user tier holds exactly one template N
\* and its schema and config are the imported ones, whatever user template N
\* was there before; a failed import returns None and raises nothing.
C21_ImportReplaces ==
    ImportDone =>
        /\ ret.status = "returned"
        /\ ~IsNothing(ret.value) =>
               LET N == The(ret.value).schema.name
                   source == SourceDocuments(op.arg)
                   templates == load_templates_from_dir(user, "user")
               IN  /\ Cardinality(UserTemplatesNamed(N)) = 1
                   /\ \A i \in UserTemplatesNamed(N) :
                          /\ templates[i].schema = from_dict(source.schema)
                          /\ templates[i].config = source.config
                          /\ templates[i].schema = The(ret.value).schema
                          /\ templates[i].config = The(ret.value).config

\* A directory import has replaced a user template of the same name that
\* held another schema and another config.
C21_Witness ==
    /\ ImportDone
    /\ op.arg.kind = "dir"
    /\ op.replaced
    /\ ~IsNothing(ret.value)
    /\ Cardinality(UserTemplatesNamed(The(ret.value).schema.name)) = 1

(***************************************************************************)
(* Lookup.                                                                 *)
(***************************************************************************)
GetDone == op.name = "get_template"

\* templates[i] has the name, and the version where one is asked for.
Matches(template, template_name, version) ==
    /\ template.schema.name = template_name
    /\ version # PyNone => template.schema.version = version.v

\* C22: get_template(name, version) returns the first template of the
\* combined list, predefined tier before user tier and the same name in both
\* tiers kept twice, that has the name and, where a version is given, the
\* version; it returns None exactly when the list holds no such template.
C22_GetFirstMatch ==
    GetDone =>
        LET templates == load_templates_from_dir(predefined, "predefined")
                         \o load_templates_from_dir(user, "user")
            matching == {i \in 1..Len(templates) : Matches(templates[i], op.arg, op.version)}
        IN  /\ IsNothing(ret.value) <=> matching = {}
            /\ ~IsNothing(ret.value) =>
                   \E i \in matching :
                       /\ The(ret.value) = templates[i]
                       /\ \A j \in matching : i <= j

\* Both tiers hold a template A; the lookup by name has returned the
\* predefined one.
C22_Witness ==
    /\ GetDone
    /\ op.arg = "A"
    /\ op.version = PyNone
    /\ "A" \in DOMAIN user
    /\ "A" \in DOMAIN predefined
    /\ ~IsNothing(load_template(user, "user", "A"))
    /\ ~IsNothing(load_template(predefined, "predefined", "A"))
    /\ ~IsNothing(ret.value)
    /\ The(ret.value).template_path = <<"predefined", "A">>

(***************************************************************************)
(* Listing.                                                                *)
(***************************************************************************)
ListDone == op.name = "list_templates"

Tier(tierName) == IF tierName = "predefined" THEN predefined ELSE user

\* The directories of both tiers, as <<tier name, directory name>>.
StoredDirectories ==
    {<<"predefined", d>> : d \in DOMAIN predefined} \cup {<<"user", d>> : d \in DOMAIN user}

Directory(path) == Tier(path[1])[path[2]]

\* A directory holds both documents and neither is one of the malformed
\* ones.
WellFormed(path) ==
    /\ {"template.json", "config.json"} \subseteq DOMAIN Directory(path)
    /\ Directory(path) \notin BadDirectories

\* A directory holds both documents and one of them is malformed.
Malformed(path) ==
    /\ {"template.json", "config.json"} \subseteq DOMAIN Directory(path)
    /\ Directory(path) \in BadDirectories

\* C23: list_templates returns whatever the store holds: every well-formed
\* template of both tiers (of the category asked for) is in the list, once,
\* with its stored schema and config; a directory whose schema or config
\* document is malformed is left out and a warning printed for it.
C23_ListSkipsMalformed ==
    ListDone =>
        /\ ret.status = "returned"
        /\ \A path \in StoredDirectories :
               LET asked == /\ WellFormed(path)
                            /\ op.arg # PyNone =>
                                   from_dict(Directory(path)["template.json"]).category = op.arg
                   found == {i \in 1..Len(ret.value) : ret.value[i].template_path = path}
               IN  /\ Cardinality(found) = (IF asked THEN 1 ELSE 0)
                   /\ \A i \in found :
                          /\ ret.value[i].schema = from_dict(Directory(path)["template.json"])
                          /\ ret.value[i].config = Directory(path)["config.json"]
                   /\ Malformed(path) =>
                          \E k \in 1..Len(ret.console) :
                              ret.console[k] = <<"Failed to load template from", path[1], path[2]>>
        /\ \A i \in 1..Len(ret.value) : ret.value[i].template_path \in StoredDirectories

\* Each tier holds a malformed directory beside a well-formed template; the
\* list holds the two templates and two warnings were printed.
C23_Witness ==
    /\ ListDone
    /\ op.arg = PyNone
    /\ \E path \in StoredDirectories : path[1] = "user" /\ Malformed(path)
    /\ \E path \in StoredDirectories : path[1] = "predefined" /\ Malformed(path)
    /\ \E path \in StoredDirectories : path[1] = "user" /\ WellFormed(path)
    /\ \E path \in StoredDirectories : path[1] = "predefined" /\ WellFormed(path)
    /\ Len(ret.value) = 2
    /\ Len(ret.console) = 2

(***************************************************************************)
(* Half-written templates.                                                 *)
(***************************************************************************)
\* The combined list as list_templates() would return it now.
VisibleCatalog == list_templates(PyNone)

\* A directory of either tier holds exactly one of the two documents.
HalfWritten(path) ==
    Cardinality({"template.json", "config.json"} \cap DOMAIN Directory(path)) = 1

NoHalfWrittenVisible ==
    \A path \in StoredDirectories :
        HalfWritten(path) =>
            /\ \A i \in 1..Len(VisibleCatalog) : VisibleCatalog[i].template_path # path
            /\ \A version \in Versions :
                   LET found == get_template(path[2], version)
                   IN  ~IsNothing(found) => The(found).template_path # path

\* The first write of a create or single-document import under a name the
\* user tier does not hold, and the stop that may follow it.
InterruptedOnNewName ==
    \/ Writing' /\ ~Writing /\ op'.arg \notin DOMAIN user
    \/ Writing /\ ~Writing' /\ op'.at = "interrupted" /\ ~op.existed

\* C29: a directory holding only one of its two documents is returned by
\* neither list nor get, so a create or single-document import of a new name
\* that stops between its two writes leaves the visible catalog as it was.
\* (That the same stop on an existing name can show the new schema beside
\* the old config is the state C29_Witness describes.)
C29_HalfWrittenInvisible ==
    /\ []NoHalfWrittenVisible
    /\ [][InterruptedOnNewName => VisibleCatalog' = VisibleCatalog]_vars

\* A create or import over an existing template has stopped between its two
\* writes; list and get return a template with the new schema and the old
\* config.
C29_Witness ==
    /\ "at" \in DOMAIN op
    /\ op.at = "interrupted"
    /\ op.existed
    /\ \E i \in 1..Len(VisibleCatalog) :
           /\ VisibleCatalog[i].template_path = <<"user", op.arg>>
           /\ VisibleCatalog[i].schema = op.schema
           /\ VisibleCatalog[i].config # op.config
           /\ get_template(op.arg, PyStr(op.schema.version)) = Some(VisibleCatalog[i])

(***************************************************************************)
(* Exceptions at the operation boundary.                                   *)
(***************************************************************************)
\* C24: no operation of the store or the composer (create_template,
\* delete_template, import_template, resolve_template, validate_inheritance)
\* lets an exception reach its caller: each of them returns a result.
C24_NoExceptionEscapes ==
    op.name \in {"create_template", "delete_template", "import_template",
                 "resolve_template", "validate_inheritance"}
        => ret.status = "returned"

(***************************************************************************)
(* Notifications.                                                          *)
(***************************************************************************)
SendDone == op.name = "send_notification"

\* The configured channels a call targets.
Targeted ==
    IF op.channels = PyNone THEN Range(service.channels)
    ELSE Range(op.channels.v) \cap Range(service.channels)

\* The call was notified: its event was recorded.
Notified == Len(service.event_history) > op.recorded_before

\* C25: the map send_notification returns has one entry per targeted
\* configured channel; its value is true if and only if that channel's send
\* returned success, false where it returned failure or raised; every
\* targeted channel's send is awaited whatever the other channels did.
C25_ResultsAreSendStatus ==
    (SendDone /\ Notified) =>
        /\ DOMAIN ret.value = Targeted
        /\ ret.tried = Targeted
        /\ \A channel \in Targeted : ret.value[channel] <=> op.outcomes[channel] = "sent"

FailureTypes == {"pipeline_failed", "build_failed", "deployment_failed"}

DefaultRules == "rules" \notin DOMAIN service.notification_config

\* C27: under the default rules a PIPELINE_SUCCESS is notified if and only
\* if the event recorded last before it is a failure (PIPELINE_FAILED,
\* BUILD_FAILED or DEPLOYMENT_FAILED), also when that failure is the only
\* event recorded; send_pipeline_success then sends pipeline_recovered with
\* high priority, and pipeline_success with normal priority otherwise.
C27_RecoveryAfterFailure ==
    /\ (SendDone /\ DefaultRules /\ op.event_type = "pipeline_success") =>
           (Notified <=> op.previous \in FailureTypes)
    /\ (op.name = "send_pipeline_success" /\ DefaultRules) =>
           IF op.previous \in FailureTypes
           THEN op.event_type = "pipeline_recovered" /\ op.priority = "high" /\ Notified
           ELSE op.event_type = "pipeline_success" /\ op.priority = "normal" /\ ~Notified

\* The history holds at most HistoryLimit records, in the order of their
\* timestamps.
HistoryBounded ==
    /\ Len(service.event_history) <= HistoryLimit
    /\ \A i, j \in 1..Len(service.event_history) :
           i < j => service.event_history[i].timestamp < service.event_history[j].timestamp

\* What a call leaves of the history: the history as it was where
\* _should_notify is false; otherwise the new record last, after the
\* records that were there, the oldest of them dropped if the history was
\* full.
HistoryStep ==
    LET before == service.event_history
        after == service'.event_history
        new == [type |-> op'.event_type, timestamp |-> service.now, context |-> EventContext]
    IN  IF ~should_notify(service, NotificationEventTypeOf(op'.event_type))
        THEN after = before
        ELSE /\ after # <<>>
             /\ after[Len(after)] = new
             /\ IF Len(before) < HistoryLimit
                THEN after = Append(before, new)
                ELSE /\ Len(after) = HistoryLimit
                     /\ \A i \in 1..(HistoryLimit - 1) : after[i] = before[i + 1]

\* C28: after any sequence of send_notification calls event_history holds
\* at most 50 records, the most recently recorded ones in the order they
\* were recorded; a call for which _should_notify is false records nothing.
C28_HistoryKeepsLast50 ==
    /\ []HistoryBounded
    /\ [][HistoryStep]_vars

\* A call has recorded an event into a full history: the oldest record is
\* gone and the new one is last.
C28_Witness ==
    /\ SendDone
    /\ op.recorded_before = HistoryLimit
    /\ Len(service.event_history) = HistoryLimit
    /\ service.event_history[1].timestamp > 0
    /\ service.event_history[HistoryLimit].timestamp = service.now - 1
    /\ service.event_history[HistoryLimit].type = op.event_type

(***************************************************************************)
(* Re-application.                                                         *)
(***************************************************************************)
\* A successful apply_template is followed at once by one of the same
\* template with the same parameters.
AppliedAgain ==
    /\ op.name = "apply_template"
    /\ ret.value
    /\ op'.name = "apply_template"
    /\ op'.arg = op.arg
    /\ op'.parameters = op.parameters
    /\ op'.before = pipeline_json

\* C30: applying a template with the same parameters a second time leaves
\* pipeline.json as the first application left it: no key, no list element
\* and no template block is added or grows.
C30_ApplyIdempotent ==
    [][AppliedAgain => (ret'.value /\ pipeline_json' = pipeline_json)]_vars

\* A template with a sequence, a mapping and a placeholder has been applied
\* a second time onto the document its first application left, which held
\* a sequence and a mapping under the same keys before.
C30_Witness ==
    /\ Applied
    /\ ret.value
    /\ op.arg = "T2"
    /\ ~IsNothing(op.before)
    /\ "template" \in DOMAIN The(op.before)
    /\ The(op.before)["template"] =
           template_metadata(The(get_template("T2", PyNone)), Supplied)
    /\ {"a", "b", "keep"} \subseteq DOMAIN The(op.before)
    /\ pipeline_json = op.before

(***************************************************************************)
(* init.                                                                   *)
(***************************************************************************)
InitDone == op.name = "init"

ConfigExisted == CONFIG_JSON \in DOMAIN op.before

\* The user has not let init overwrite: no --force, and "no" to the prompt.
Refused == ~op.force /\ ~op.answers.overwrite

\* The name given with -n or, without -n, at the prompt.
GivenName == IF op.project_name = "" THEN op.answers.project_name ELSE op.project_name

\* .pipeline/config.json is the default configuration with the given
\* project name, region and environment.
DefaultWritten ==
    /\ CONFIG_JSON \in DOMAIN cwd
    /\ LET config == cwd[CONFIG_JSON]
       IN  /\ DOMAIN config = DOMAIN get_default_config
           /\ config.version = "1.0"
           /\ config.project_name = GivenName
           /\ config.aws_region = op.region
           /\ config.environment = op.environment
           /\ config.deployment = get_default_config.deployment
           /\ config.notifications = get_default_config.notifications
           /\ \A key \in DOMAIN get_default_config.pipeline :
                  config.pipeline[key] = get_default_config.pipeline[key]

\* C26 as claimed: where .pipeline/config.json exists, init without --force
\* whose overwrite prompt is declined leaves its content unchanged, and init
\* with --force, or after the user confirms, replaces it by the default
\* configuration carrying the given project name, region and environment.
C26_InitOverwritesOnlyIfPermitted ==
    (InitDone /\ ConfigExisted) =>
        IF Refused THEN cwd[CONFIG_JSON] = op.before[CONFIG_JSON]
        ELSE DefaultWritten

\* The directory holds a project file, or the user has answered yes to
\* "Continue anyway?".
DirectoryAccepted ==
    \/ \E file \in {"package.json", "requirements.txt", "Dockerfile", "README.md",
                     ".git", "src", "app"} : file \in DOMAIN op.before
    \/ op.answers.continue_anyway

\* C26 amended: the file is unchanged also where the user declines to go on
\* in a directory without project files, and is replaced with --force or
\* after the user confirms only where the directory was accepted.
C26_InitOverwritesOnlyIfPermittedAndAccepted ==
    (InitDone /\ ConfigExisted) =>
        IF Refused \/ ~DirectoryAccepted THEN cwd[CONFIG_JSON] = op.before[CONFIG_JSON]
        ELSE DefaultWritten

\* An existing configuration was kept on a refusal in a project directory,
\* and one was replaced under --force.
C26_Witness ==
    /\ InitDone
    /\ ConfigExisted
    /\ DirectoryAccepted
    /\ \/ Refused /\ op.before[CONFIG_JSON] = OldConfig /\ cwd[CONFIG_JSON] = OldConfig
       \/ op.force /\ op.before[CONFIG_JSON] = OldConfig /\ DefaultWritten

====
